---------------------------- MODULE Spec2Model ----------------------------
(***************************************************************************)
(* Model of two parts of FreeIPA:                                          *)
(*   - ipaserver/install/upgradeinstance.py: IPAUpgrade, the staged        *)
(*     upgrade of a directory server instance (SpecUpgrade);               *)
(*   - ipalib/plugins/trust.py: trust_add, the establishment of a trust    *)
(*     with its ID range, as a sequence of calls (SpecTrust) and as one    *)
(*     command among trust_add, trust_show, trust_del and trust_mod, with  *)
(*     every combination of options (SpecCommand);                         *)
(*   - ipalib/plugins/trust.py: trustconfig_mod and trustconfig_show, the  *)
(*     fallback primary group of the trust configuration (SpecConfig).     *)
(***************************************************************************)
EXTENDS Integers, Sequences, FiniteSets, TLC

VARIABLES
    \* ---- IPAUpgrade -----------------------------------------------------
    pc,            \* "init" before create_instance, "steps" inside
                   \* start_creation, "done" after it
    config,        \* cn=config of dse.ldif: attribute -> list of values
    savefile,      \* the dse.ldif.ipa.<ext> copy (<<>> until it is written)
    sstore,        \* backup_state/restore_state store: key -> <<>> or <<v>>
    running,       \* the directory server process is up
    connected,     \* api.Backend.ldap2.isconnected()
    ds_running,    \* create_instance's local ds_running
    schema_files,  \* self.schema_files is non-empty
    modified,      \* self.modified
    steps,         \* self.steps, as queued by self.step(...)
    idx,           \* position of start_creation in self.steps
    failed,        \* a step has raised
    log,           \* history: the steps run so far, each with its outcome
    pre,           \* history: configuration and server state at entry
    \* ---- trust_add ------------------------------------------------------
    bindings_installed,  \* _bindings_installed
    murmur_installed,    \* _murmur_installed
    configured,    \* the local domain's trust identity is provisioned
    trusts,        \* cn=trusts: <<container, cn>> -> trust entry
    ranges,        \* cn=ranges: range name -> ID range entry
    ncalls,        \* number of trust_add calls made
    last,          \* history: what the last trust_add call did
    request,       \* history: <<>>, or the command whose outcome is examined
    \* ---- trustconfig ----------------------------------------------------
    entries,       \* the accounts of the directory: DN -> entry
    trustconfig,   \* the trust configuration entry (<<>> when there is none)
    reply          \* history: <<>>, or the last trustconfig command with
                   \* its result

upgradeVars == <<pc, config, savefile, sstore, running, connected, ds_running,
                 schema_files, modified, steps, idx, failed, log, pre>>

trustVars == <<bindings_installed, murmur_installed, configured, trusts, ranges, ncalls,
               last, request>>

configVars == <<entries, trustconfig, reply>>

vars == <<upgradeVars, trustVars, configVars>>

----------------------------------------------------------------------------
(* dse.ldif, cn=config                                                      *)

PORT == "nsslapd-port"
SECURITY == "nsslapd-security"
LOCK == "nsslapd-global-backend-lock"
SEARCHBASE == "nsslapd-ldapientrysearchbase"

Attrs == {PORT, SECURITY, LOCK, SEARCHBASE}
SavedKeys == {PORT, SECURITY, LOCK}

\* The values an attribute of cn=config may hold before the upgrade; an
\* absent attribute is the empty list.
InitialValues(a) ==
    CASE a = PORT -> {<<>>, <<"389">>, <<"0">>}
      [] a = SECURITY -> {<<>>, <<"on">>, <<"off">>}
      [] a = LOCK -> {<<>>, <<"on">>, <<"off">>}
      [] a = SEARCHBASE -> {<<>>, <<"dc=example">>}

RECURSIVE WithoutDuplicates(_, _)
\* [v for v in values if v not in attribute], appended in order
WithoutDuplicates(attribute, values) ==
    IF values = <<>> THEN attribute
    ELSE IF \E i \in 1..Len(attribute) : attribute[i] = Head(values)
         THEN WithoutDuplicates(attribute, Tail(values))
         ELSE WithoutDuplicates(Append(attribute, Head(values)), Tail(values))

\* ModifyLDIF.remove_value(dn, attr): every value of the attribute is dropped
remove_value(entry, attr) == [entry EXCEPT ![attr] = <<>>]

\* ModifyLDIF.add_value(dn, attr, values)
add_value(entry, attr, values) ==
    [entry EXCEPT ![attr] = WithoutDuplicates(entry[attr], values)]

\* ModifyLDIF.replace_value(dn, attr, values)
replace_value(entry, attr, values) ==
    add_value(remove_value(entry, attr), attr, values)

----------------------------------------------------------------------------
(* The edits of the step methods                                            *)

DisableListenersNoSearchbase(entry) ==
    replace_value(replace_value(entry, PORT, <<"0">>), SECURITY, <<"off">>)

\* __disable_listeners: the edited cn=config
disable_listeners(entry) ==
    remove_value(
        replace_value(replace_value(entry, PORT, <<"0">>), SECURITY, <<"off">>),
        SEARCHBASE)

\* __enable_ds_global_write_lock: the edited cn=config
enable_ds_global_write_lock(entry) == replace_value(entry, LOCK, <<"on">>)

\* backup_state(key, value) for the attributes __save_config has handled
\* when it raises or returns: `upto` is the number of attributes handled.
SaveOrder == <<PORT, SECURITY, LOCK>>

SaveConfigNoLock(store, entry, upto) ==
    [k \in SavedKeys |->
        IF \E i \in 1..upto : SaveOrder[i] = k /\ k # LOCK /\ entry[k] # <<>>
        THEN <<entry[k][1]>> ELSE store[k]]

\* __save_config: the state store after the first `upto` attributes
save_config(store, entry, upto) ==
    [k \in SavedKeys |->
        IF \E i \in 1..upto : SaveOrder[i] = k /\ entry[k] # <<>>
        THEN <<entry[k][1]>> ELSE store[k]]

RestoreConfigKeepLock(entry, port, security, global_lock) ==
    LET e1 == IF port # <<>> THEN replace_value(entry, PORT, port) ELSE entry
        e2 == IF security # <<>> THEN replace_value(e1, SECURITY, security) ELSE e1
    IN  IF global_lock # <<>> THEN add_value(e2, LOCK, global_lock) ELSE e2

\* __restore_config: the edited cn=config, given the three restored values
\* (<<>> is None)
restore_config(entry, port, security, global_lock) ==
    LET e1 == IF port # <<>> THEN replace_value(entry, PORT, port) ELSE entry
        e2 == IF security # <<>> THEN replace_value(e1, SECURITY, security) ELSE e1
        e3 == remove_value(e2, LOCK)
    IN  IF global_lock # <<>> THEN add_value(e3, LOCK, global_lock) ELSE e3

----------------------------------------------------------------------------
(* create_instance and start_creation                                       *)

Step(message, method, run_after_failure) ==
    [message |-> message, method |-> method,
     run_after_failure |-> run_after_failure]

StopStep(raf) == Step("stopping directory server", "__stop_instance", raf)
StartStep(raf) == Step("starting directory server", "__start", raf)

MainChain(schema) ==
    <<Step("saving configuration", "__save_config", FALSE),
      Step("disabling listeners", "__disable_listeners", FALSE),
      Step("enabling DS global lock", "__enable_ds_global_write_lock", FALSE),
      StartStep(FALSE)>>
    \o (IF schema THEN <<Step("updating schema", "__update_schema", FALSE)>>
        ELSE <<>>)
    \o <<Step("upgrading server", "__upgrade", FALSE)>>

CreateInstanceRestartAfterFailure(ds, schema) ==
    (IF ds THEN <<StopStep(FALSE)>> ELSE <<>>)
    \o MainChain(schema)
    \o <<StopStep(TRUE),
         Step("restoring configuration", "__restore_config", TRUE)>>
    \o (IF ds THEN <<StartStep(TRUE)>> ELSE <<>>)

CreateInstanceAlwaysRestart(ds, schema) ==
    (IF ds THEN <<StopStep(FALSE)>> ELSE <<>>)
    \o MainChain(schema)
    \o <<StopStep(TRUE),
         Step("restoring configuration", "__restore_config", TRUE)>>
    \o <<StartStep(FALSE)>>

CreateInstanceLockBeforeDisable(ds, schema) ==
    (IF ds THEN <<StopStep(FALSE)>> ELSE <<>>)
    \o <<Step("saving configuration", "__save_config", FALSE),
         Step("enabling DS global lock", "__enable_ds_global_write_lock", FALSE),
         Step("disabling listeners", "__disable_listeners", FALSE),
         StartStep(FALSE)>>
    \o (IF schema THEN <<Step("updating schema", "__update_schema", FALSE)>>
        ELSE <<>>)
    \o <<Step("upgrading server", "__upgrade", FALSE)>>
    \o <<StopStep(TRUE),
         Step("restoring configuration", "__restore_config", TRUE)>>
    \o (IF ds THEN <<StartStep(FALSE)>> ELSE <<>>)

\* The steps create_instance queues, given ds_running and whether schema
\* files were supplied.
create_instance_steps(ds, schema) ==
    (IF ds THEN <<StopStep(FALSE)>> ELSE <<>>)
    \o MainChain(schema)
    \o <<StopStep(TRUE),
         Step("restoring configuration", "__restore_config", TRUE)>>
    \o (IF ds THEN <<StartStep(FALSE)>> ELSE <<>>)

\* start_creation: the first step at or after position i that is run, given
\* whether a step has raised; Len(steps) + 1 when none is left.
NextStep(ss, i, hasFailed) ==
    LET runnable == {j \in i..Len(ss) : ~hasFailed \/ ss[j].run_after_failure}
    IN  IF runnable = {} THEN Len(ss) + 1
        ELSE CHOOSE j \in runnable : \A k \in runnable : j <= k

AtStep(method) ==
    /\ pc = "steps"
    /\ idx <= Len(steps)
    /\ steps[idx].method = method

\* What every step does to start_creation's own state; entry is what the
\* history keeps of the step.
Logged(entry, raised) ==
    /\ log' = Append(log, entry)
    /\ failed' = (failed \/ raised)
    /\ idx' = NextStep(steps, idx + 1, failed \/ raised)
    /\ pc' = IF NextStep(steps, idx + 1, failed \/ raised) > Len(steps)
             THEN "done" ELSE "steps"
    /\ UNCHANGED <<steps, ds_running, schema_files, pre>>

Advance(method, outcome, raised) ==
    Logged([method |-> method, outcome |-> outcome], raised)

----------------------------------------------------------------------------

InitUpgrade ==
    /\ pc = "init"
    /\ config \in [Attrs -> UNION {InitialValues(a) : a \in Attrs}]
    /\ \A a \in Attrs : config[a] \in InitialValues(a)
    /\ savefile = <<>>
    /\ sstore = [k \in SavedKeys |-> <<>>]
    /\ running \in BOOLEAN
    /\ connected = FALSE
    /\ ds_running = FALSE
    /\ schema_files \in BOOLEAN
    /\ modified = FALSE
    /\ steps = <<>>
    /\ idx = 0
    /\ failed = FALSE
    /\ log = <<>>
    /\ pre = [config |-> config, running |-> running]
    \* no trust_add call is made
    /\ bindings_installed = TRUE
    /\ murmur_installed = TRUE
    /\ configured = TRUE
    /\ trusts = <<>>
    /\ ranges = <<>>
    /\ ncalls = 0
    /\ last = [realm |-> <<>>, error |-> "none", join |-> "none",
               dom_sid |-> <<>>, verified |-> FALSE, value |-> <<>>,
               summary |-> "", truststatus |-> "", found |-> <<>>,
               did |-> <<>>]
    /\ request = <<>>
    /\ entries = <<>>
    /\ trustconfig = <<>>
    /\ reply = <<>>

\* create_instance up to the call of start_creation
CreateInstance ==
    /\ pc = "init"
    /\ ds_running' = running
    /\ steps' = create_instance_steps(running, schema_files)
    /\ idx' = 1
    /\ pc' = "steps"
    /\ UNCHANGED <<config, savefile, sstore, running, connected, schema_files,
                   modified, failed, log, pre>>
    /\ UNCHANGED <<trustVars, configVars>>

\* __stop_instance
StopInstance ==
    /\ AtStep("__stop_instance")
    /\ \E outcome \in {"ok", "error"} :
        /\ connected' = FALSE
        /\ running' = IF outcome = "ok" THEN FALSE ELSE running
        /\ Advance("__stop_instance", outcome, outcome # "ok")
    /\ UNCHANGED <<config, savefile, sstore, modified>>
    /\ UNCHANGED <<trustVars, configVars>>

\* __save_config; it may raise at the copy, at the parse, or while it
\* handles the second or the third attribute
SaveConfig ==
    /\ AtStep("__save_config")
    /\ \E upto \in -1..3 :
        /\ savefile' = IF upto >= 0 THEN <<config>> ELSE savefile
        /\ sstore' = IF upto >= 0 THEN save_config(sstore, config, upto)
                     ELSE sstore
        /\ Advance("__save_config", IF upto = 3 THEN "ok" ELSE "error",
                   upto # 3)
    /\ UNCHANGED <<config, running, connected, modified>>
    /\ UNCHANGED <<trustVars, configVars>>

\* __disable_listeners
DisableListeners ==
    /\ AtStep("__disable_listeners")
    /\ \E outcome \in {"ok", "error"} :
        /\ config' = IF outcome = "ok" THEN disable_listeners(config) ELSE config
        /\ Advance("__disable_listeners", outcome, outcome # "ok")
    /\ UNCHANGED <<savefile, sstore, running, connected, modified>>
    /\ UNCHANGED <<trustVars, configVars>>

\* __enable_ds_global_write_lock
EnableGlobalWriteLock ==
    /\ AtStep("__enable_ds_global_write_lock")
    /\ \E outcome \in {"ok", "error"} :
        /\ config' = IF outcome = "ok" THEN enable_ds_global_write_lock(config)
                     ELSE config
        /\ Advance("__enable_ds_global_write_lock", outcome, outcome # "ok")
    /\ UNCHANGED <<savefile, sstore, running, connected, modified>>
    /\ UNCHANGED <<trustVars, configVars>>

\* __start: srv.start, then ldap2.connect
Start ==
    /\ AtStep("__start")
    /\ \E outcome \in {"ok", "error_start", "error_connect"} :
        /\ running' = IF outcome = "error_start" THEN running ELSE TRUE
        /\ connected' = IF outcome = "ok" THEN TRUE ELSE connected
        /\ Advance("__start", IF outcome = "ok" THEN "ok" ELSE "error",
                   outcome # "ok")
    /\ UNCHANGED <<config, savefile, sstore, modified>>
    /\ UNCHANGED <<trustVars, configVars>>

\* __update_schema
UpdateSchema ==
    /\ AtStep("__update_schema")
    /\ \E outcome \in {"ok", "error"}, changed \in BOOLEAN :
        /\ modified' = IF outcome = "ok" THEN (changed \/ modified) ELSE modified
        /\ Logged([method |-> "__update_schema", outcome |-> outcome,
                   changed |-> (outcome = "ok" /\ changed)],
                  outcome # "ok")
    /\ UNCHANGED <<config, savefile, sstore, running, connected>>
    /\ UNCHANGED <<trustVars, configVars>>

UpgradeForgetsSchema ==
    /\ AtStep("__upgrade")
    /\ \E raised \in {"none", "BadSyntax", "Exception"}, changed \in BOOLEAN :
        /\ modified' = IF raised = "none" THEN changed ELSE modified
        /\ Logged([method |-> "__upgrade",
                   outcome |-> CASE raised = "none" -> "ok"
                                 [] raised = "BadSyntax" -> "BadSyntax"
                                 [] OTHER -> "RuntimeError",
                   changed |-> (raised = "none" /\ changed),
                   raised |-> raised],
                  raised # "none")
    /\ UNCHANGED <<config, savefile, sstore, running, connected>>
    /\ UNCHANGED <<trustVars, configVars>>

UpgradeWrapsAll ==
    /\ AtStep("__upgrade")
    /\ \E raised \in {"none", "BadSyntax", "Exception"}, changed \in BOOLEAN :
        /\ modified' = IF raised = "none" THEN (changed \/ modified) ELSE modified
        /\ Logged([method |-> "__upgrade",
                   outcome |-> CASE raised = "none" -> "ok"
                                 [] raised = "BadSyntax" -> "RuntimeError"
                                 [] OTHER -> "RuntimeError",
                   changed |-> (raised = "none" /\ changed),
                   raised |-> raised],
                  raised # "none")
    /\ UNCHANGED <<config, savefile, sstore, running, connected>>
    /\ UNCHANGED <<trustVars, configVars>>

\* __upgrade: BadSyntax is re-raised as it is, any other exception as a
\* RuntimeError
Upgrade ==
    /\ AtStep("__upgrade")
    /\ \E raised \in {"none", "BadSyntax", "Exception"}, changed \in BOOLEAN :
        /\ modified' = IF raised = "none" THEN (changed \/ modified) ELSE modified
        /\ Logged([method |-> "__upgrade",
                   outcome |-> CASE raised = "none" -> "ok"
                                 [] raised = "BadSyntax" -> "BadSyntax"
                                 [] OTHER -> "RuntimeError",
                   changed |-> (raised = "none" /\ changed),
                   raised |-> raised],
                  raised # "none")
    /\ UNCHANGED <<config, savefile, sstore, running, connected>>
    /\ UNCHANGED <<trustVars, configVars>>

RestoreConfigFromCopy ==
    /\ AtStep("__restore_config")
    /\ \E outcome \in {"ok", "error"} :
        /\ sstore' = [k \in SavedKeys |-> <<>>]
        /\ config' = IF outcome = "ok" /\ savefile # <<>> THEN savefile[1]
                     ELSE config
        /\ Advance("__restore_config", outcome, outcome # "ok")
    /\ UNCHANGED <<savefile, running, connected, modified>>
    /\ UNCHANGED <<trustVars, configVars>>

\* __restore_config: the three restore_state calls, then the edit
RestoreConfig ==
    /\ AtStep("__restore_config")
    /\ \E outcome \in {"ok", "error"} :
        /\ sstore' = [k \in SavedKeys |-> <<>>]
        /\ config' = IF outcome = "ok"
                     THEN restore_config(config, sstore[PORT], sstore[SECURITY],
                                         sstore[LOCK])
                     ELSE config
        /\ Advance("__restore_config", outcome, outcome # "ok")
    /\ UNCHANGED <<savefile, running, connected, modified>>
    /\ UNCHANGED <<trustVars, configVars>>

NextUpgrade ==
    \/ CreateInstance
    \/ StopInstance
    \/ SaveConfig
    \/ DisableListeners
    \/ EnableGlobalWriteLock
    \/ Start
    \/ UpdateSchema
    \/ Upgrade
    \/ RestoreConfig


----------------------------------------------------------------------------
(* Properties of the upgrade                                                *)

Ran(method, outcome) ==
    \E i \in 1..Len(log) : log[i].method = method /\ log[i].outcome = outcome

UpgradeFailed ==
    \E i \in 1..Len(log) : log[i].method = "__upgrade" /\ log[i].outcome # "ok"

\* The position in the log of the __upgrade step (0 when it has not run).
UpgradeAt ==
    IF \E i \in 1..Len(log) : log[i].method = "__upgrade"
    THEN CHOOSE i \in 1..Len(log) : log[i].method = "__upgrade"
    ELSE 0

StartedAfterUpgrade ==
    \E j \in (UpgradeAt + 1)..Len(log) : log[j].method = "__start"

LockOn(entry) == entry[LOCK] = <<"on">>

\* update_schema or ld.update has returned true.
ChangeReported ==
    \E i \in 1..Len(log) :
        /\ log[i].method \in {"__update_schema", "__upgrade"}
        /\ log[i].changed

C4_QuiescedDuringMigration ==
    (AtStep("__update_schema") \/ AtStep("__upgrade")) =>
        /\ running
        /\ config[PORT] = <<"0">>
        /\ config[SECURITY] = <<"off">>
        /\ config[SEARCHBASE] = <<>>
        /\ config[LOCK] = <<"on">>

C4_Witness ==
    /\ AtStep("__upgrade")
    /\ pre.config[PORT] = <<"389">>
    /\ pre.config[SECURITY] = <<"on">>
    /\ pre.config[SEARCHBASE] # <<>>
    /\ pre.config[LOCK] = <<>>

C5_Expected(wasRunning, schema) ==
    (IF wasRunning THEN <<"__stop_instance">> ELSE <<>>)
    \o <<"__save_config", "__disable_listeners",
         "__enable_ds_global_write_lock", "__start">>
    \o (IF schema THEN <<"__update_schema">> ELSE <<>>)
    \o <<"__upgrade", "__stop_instance", "__restore_config">>
    \o (IF wasRunning THEN <<"__start">> ELSE <<>>)

\* C5: in a run with no failing step the steps execute exactly once each, in
\* the order StopIfRunning, SaveConfig, DisableListeners, EnableGlobalLock,
\* Start, UpdateSchema, Upgrade, StopInstance, RestoreConfig,
\* StartIfWasRunning, the first and the last only if the server was running
\* at entry and UpdateSchema only if schema files were supplied.
C5_StepOrder ==
    (pc = "done" /\ ~failed) =>
        /\ [i \in 1..Len(log) |-> log[i].method]
              = C5_Expected(pre.running, schema_files)
        /\ \A i \in 1..Len(log) : log[i].outcome = "ok"

C5_Witness ==
    /\ pc = "done"
    /\ ~failed
    /\ pre.running
    /\ schema_files
    /\ Len(log) = 10

\* C6: after a run without any failing step the directory server is running
\* if and only if it was running when the run began.
C6_RunningAsBefore ==
    (pc = "done" /\ ~failed) => (running <=> pre.running)

C6_Witness ==
    /\ pc = "done"
    /\ ~failed
    /\ pre.running
    /\ running
    /\ Ran("__stop_instance", "ok")

\* C7: after a run without any failing step the listener port and the TLS
\* toggle equal their pre-upgrade state, an attribute absent before the run
\* being absent afterwards.
C7_PortAndSecurityRestored ==
    (pc = "done" /\ ~failed) =>
        /\ config[PORT] = pre.config[PORT]
        /\ config[SECURITY] = pre.config[SECURITY]

----------------------------------------------------------------------------
(* trust_add: names                                                         *)

DEFAULT_RANGE_SIZE == 200000

MaxCalls == 2

\* Realm names are lists of characters.
UpperChar(c) ==
    CASE c = "a" -> "A" [] c = "d" -> "D" [] c = "n" -> "N" [] c = "t" -> "T"
      [] OTHER -> c

LowerChar(c) ==
    CASE c = "A" -> "a" [] c = "D" -> "d" [] c = "N" -> "n" [] c = "T" -> "t"
      [] OTHER -> c

\* str.upper()
upper(s) == [i \in 1..Len(s) |-> UpperChar(s[i])]

\* str.lower()
lower(s) == [i \in 1..Len(s) |-> LowerChar(s[i])]

Realms == {<<"a", "d">>, <<"A", "d">>, <<"n", "t">>}

Sids == {"S-1-5-21-1", "S-1-5-21-2"}

RangeNameAsTyped(realm) == realm \o <<"_id_range">>

\* validate_range: range_name = keys[-1].upper() + '_id_range'
range_name(realm) == upper(realm) \o <<"_id_range">>

\* An optional value is <<>> (None, or not given) or <<v>>.
Truthy(x) == x # <<>> /\ x[1] # 0

\* The canonical DNS name the foreign domain reports for a realm
\* (remote_domain.info['dns_domain']).
dns_domain(realm) == lower(realm)

\* pysss_murmur.murmurhash3(dom_sid, len(dom_sid), 0xdeadbeef)
murmurhash3(sid) ==
    CASE sid = "S-1-5-21-1" -> 305419999
      [] sid = "S-1-5-21-2" -> 1230000

\* An attribute value that is a number stands for its string of digits,
\* and int(level) for the number itself.
\* _trust_type_dict.get(int(level), _trust_type_dict_unknown)
trust_type_string(level) ==
    CASE level = 1 -> "Non-Active Directory domain"
      [] level = 2 -> "Active Directory domain"
      [] level = 3 -> "RFC4120-compliant Kerberos realm"
      [] OTHER -> "Unknown"

TrustDirectionAsType(level) == trust_type_string(level)

\* _trust_direction_dict.get(int(level), _trust_type_dict_unknown)
trust_direction_string(level) ==
    CASE level = 1 -> "Trusting forest"
      [] level = 2 -> "Trusted forest"
      [] level = 3 -> "Two-way trust"
      [] OTHER -> "Unknown"

\* _trust_status_dict.get(level, _trust_type_dict_unknown)
trust_status_string(level) ==
    CASE level = TRUE -> "Established and verified"
      [] level = FALSE -> "Waiting for confirmation by remote side"
      [] OTHER -> "Unknown"

\* The credentials a call is made with: an administrator with a password,
\* a trust secret alone, or neither.
Credentials ==
    {[realm_admin |-> <<"Administrator">>, realm_passwd |-> TRUE,
      trust_secret |-> FALSE],
     [realm_admin |-> <<>>, realm_passwd |-> FALSE, trust_secret |-> TRUE],
     [realm_admin |-> <<>>, realm_passwd |-> FALSE, trust_secret |-> FALSE]}

Request(realm, trust_type, creds, base_id, range_size, range_type) ==
    [realm |-> realm, trust_type |-> trust_type,
     realm_admin |-> creds.realm_admin, realm_passwd |-> creds.realm_passwd,
     trust_secret |-> creds.trust_secret,
     base_id |-> base_id, range_size |-> range_size,
     range_type |-> range_type]

\* The trust_add calls made: the realm key and the options.
Requests ==
    {Request(realm, <<"ad">>, creds, base_id, range_size, range_type) :
        realm \in Realms, creds \in Credentials,
        base_id \in {<<>>, <<400000>>}, range_size \in {<<>>, <<100000>>},
        range_type \in {<<>>, <<"ipa-ad-trust">>}}
    \cup {Request(<<"n", "t">>, <<"ipa">>, creds, <<>>, <<>>, <<>>) :
            creds \in Credentials}

\* What the search in the foreign domain controller answers: nothing, or an
\* msSFU30DomainInfo entry with its attributes.
NoInfo == <<>>

Info(max_uid, max_gid, order) ==
    <<[msSFU30MaxUidNumber |-> max_uid, msSFU30MaxGidNumber |-> max_gid,
       msSFU30OrderNumber |-> order]>>

DiscInfos ==
    {NoInfo,
     Info(<<3000000>>, <<>>, <<2000000>>)}

\* The answers tried on the command examined: also an entry without the
\* attributes, a group id above the user id with more digits and with as
\* many, a maximum that is not a
\* multiple of the default size above the order number, maxima below the
\* order number, and an order number of 0.
CommandDiscInfos ==
    DiscInfos
    \cup {Info(<<>>, <<>>, <<>>),
          Info(<<3000000>>, <<10000000>>, <<2000000>>),
          Info(<<3000000>>, <<4000000>>, <<2000000>>),
          Info(<<2100000>>, <<>>, <<2000000>>),
          Info(<<1900000>>, <<>>, <<2000000>>),
          Info(<<1000000>>, <<>>, <<2000000>>),
          Info(<<100000>>, <<>>, <<0>>)}

\* for retry in range(10)
RETRIES == 10

\* What the foreign domain controller answers to the successive searches:
\* nothing to the first `empty` of them, info_list to the others
Answers(info_list, empty) ==
    [i \in 1..(RETRIES + 1) |-> IF i <= empty THEN NoInfo ELSE info_list]

\* The answers tried on a sequence of calls
DiscAnswers == {Answers(info_list, 0) : info_list \in DiscInfos}

\* The answers tried on the command examined: also the entry found by the
\* second search, by the last one, and by one more than the last
CommandDiscAnswers ==
    {Answers(info_list, 0) : info_list \in CommandDiscInfos}
    \cup {Answers(Info(<<3000000>>, <<>>, <<2000000>>), empty) :
            empty \in {1, RETRIES - 1, RETRIES}}

----------------------------------------------------------------------------
(* trust_add: the parts of execute                                          *)

ValidateOptionsConfiguredFirst(req) ==
    IF ~bindings_installed
    THEN [error |-> "NotFound: no Samba 4 support", full_join |-> FALSE]
    ELSE IF ~configured
    THEN [error |-> "NotFound: own domain not configured", full_join |-> FALSE]
    ELSE IF ~murmur_installed /\ req.base_id = <<>>
    THEN [error |-> "ValidationError: missing base_id", full_join |-> FALSE]
    ELSE IF req.trust_type = <<>>
    THEN [error |-> "RequirementError: trust type", full_join |-> FALSE]
    ELSE IF req.trust_type[1] # "ad"
    THEN [error |-> "ValidationError: trust type", full_join |-> FALSE]
    ELSE IF req.realm_admin # <<>>
    THEN IF /\ Len(req.realm_admin) > 1
            /\ lower(req.realm) # lower(req.realm_admin[Len(req.realm_admin)])
         THEN [error |-> "ValidationError: different realms",
               full_join |-> FALSE]
         ELSE IF ~req.realm_passwd
         THEN [error |-> "ValidationError: password should be specified",
               full_join |-> FALSE]
         ELSE [error |-> "none", full_join |-> TRUE]
    ELSE [error |-> "none", full_join |-> FALSE]

\* validate_options: the error it raises ("none" when it returns) and the
\* full_join it returns
validate_options(req) ==
    IF ~bindings_installed
    THEN [error |-> "NotFound: no Samba 4 support", full_join |-> FALSE]
    ELSE IF ~murmur_installed /\ req.base_id = <<>>
    THEN [error |-> "ValidationError: missing base_id", full_join |-> FALSE]
    ELSE IF req.trust_type = <<>>
    THEN [error |-> "RequirementError: trust type", full_join |-> FALSE]
    ELSE IF req.trust_type[1] # "ad"
    THEN [error |-> "ValidationError: trust type", full_join |-> FALSE]
    ELSE IF ~configured
    THEN [error |-> "NotFound: own domain not configured", full_join |-> FALSE]
    ELSE IF req.realm_admin # <<>>
    THEN IF /\ Len(req.realm_admin) > 1
            /\ lower(req.realm) # lower(req.realm_admin[Len(req.realm_admin)])
         THEN [error |-> "ValidationError: different realms",
               full_join |-> FALSE]
         ELSE IF ~req.realm_passwd
         THEN [error |-> "ValidationError: password should be specified",
               full_join |-> FALSE]
         ELSE [error |-> "none", full_join |-> TRUE]
    ELSE [error |-> "none", full_join |-> FALSE]

\* api.Command['idrange_show'](range_name, raw=True): <<>> for NotFound
idrange_show(name) == IF name \in DOMAIN ranges THEN <<ranges[name]>> ELSE <<>>

ValidateRangeNoSidCheck(old_range, req, populate) ==
    IF old_range # <<>> /\ (Truthy(req.base_id) \/ Truthy(req.range_size))
    THEN [error |-> "ValidationError: id range", dom_sid |-> <<>>,
          did |-> <<"idrange_show">>]
    ELSE IF populate = <<>>
    THEN [error |-> "populate_remote_domain failed", dom_sid |-> <<>>,
          did |-> <<"idrange_show", "populate_remote_domain">>]
    ELSE IF /\ old_range # <<>>
            /\ req.range_type # <<>>
            /\ req.range_type[1] # old_range[1].iparangetype
    THEN [error |-> "ValidationError: range type change", dom_sid |-> populate,
          did |-> <<"idrange_show", "populate_remote_domain">>]
    ELSE [error |-> "none", dom_sid |-> populate,
          did |-> <<"idrange_show", "populate_remote_domain">>]

ValidateRangeTypeFirst(old_range, req, populate) ==
    IF old_range # <<>> /\ (Truthy(req.base_id) \/ Truthy(req.range_size))
    THEN [error |-> "ValidationError: id range", dom_sid |-> <<>>,
          did |-> <<"idrange_show">>]
    ELSE IF populate = <<>>
    THEN [error |-> "populate_remote_domain failed", dom_sid |-> <<>>,
          did |-> <<"idrange_show", "populate_remote_domain">>]
    ELSE IF /\ old_range # <<>>
            /\ req.range_type # <<>>
            /\ req.range_type[1] # old_range[1].iparangetype
    THEN [error |-> "ValidationError: range type change", dom_sid |-> populate,
          did |-> <<"idrange_show", "populate_remote_domain">>]
    ELSE IF old_range # <<>> /\ old_range[1].ipanttrusteddomainsid # populate[1]
    THEN [error |-> "ValidationError: range exists", dom_sid |-> populate,
          did |-> <<"idrange_show", "populate_remote_domain">>]
    ELSE [error |-> "none", dom_sid |-> populate,
          did |-> <<"idrange_show", "populate_remote_domain">>]

\* validate_range, after the lookup of the old range: the error it raises,
\* the domain SID that populate_remote_domain found (`populate` is <<>>
\* when that call raises) and the calls it made.  No option is named 'type', so the check of the
\* range type against the AD values is never made.
validate_range(old_range, req, populate) ==
    IF old_range # <<>> /\ (Truthy(req.base_id) \/ Truthy(req.range_size))
    THEN [error |-> "ValidationError: id range", dom_sid |-> <<>>,
          did |-> <<"idrange_show">>]
    ELSE IF populate = <<>>
    THEN [error |-> "populate_remote_domain failed", dom_sid |-> <<>>,
          did |-> <<"idrange_show", "populate_remote_domain">>]
    ELSE IF old_range # <<>> /\ old_range[1].ipanttrusteddomainsid # populate[1]
    THEN [error |-> "ValidationError: range exists", dom_sid |-> populate,
          did |-> <<"idrange_show", "populate_remote_domain">>]
    ELSE IF /\ old_range # <<>>
            /\ req.range_type # <<>>
            /\ req.range_type[1] # old_range[1].iparangetype
    THEN [error |-> "ValidationError: range type change", dom_sid |-> populate,
          did |-> <<"idrange_show", "populate_remote_domain">>]
    ELSE [error |-> "none", dom_sid |-> populate,
          did |-> <<"idrange_show", "populate_remote_domain">>]

\* trust.trust_types
trust_types == <<"ad", "ipa">>

RetrieveAnyRealm(trust_type, realm) ==
    LET dns == {dn \in DOMAIN trusts : dn[1] = trust_type}
    IN  IF dns = {} THEN <<>> ELSE <<CHOOSE dn \in dns : TRUE>>

\* LDAPRetrieve.execute with trust_show_type = trust_type: the DN of the
\* entry cn=<realm>,cn=<trust_type>,cn=trusts, or <<>> for NotFound
retrieve(trust_type, realm) ==
    LET dns == {dn \in DOMAIN trusts :
                    dn[1] = trust_type /\ lower(dn[2]) = lower(realm)}
    IN  IF dns = {} THEN <<>> ELSE <<CHOOSE dn \in dns : TRUE>>

RECURSIVE TrustShowLoop(_, _, _)
\* trust_show.execute, the loop from the i-th trust type on: the error and
\* the result it ends with.  A NotFound sets error, and nothing resets it.
TrustShowLoop(realm, i, error) ==
    IF i > Len(trust_types) THEN [error |-> error, result |-> <<>>]
    ELSE LET result == retrieve(trust_types[i], realm)
         IN  IF result # <<>> THEN [error |-> error, result |-> result]
             ELSE TrustShowLoop(realm, i + 1, TRUE)

\* trust_show.execute: the error raised ("none" when it returns) and the entry
\* found
trust_show(realm) ==
    LET end == TrustShowLoop(realm, 1, FALSE)
    IN  IF end.error \/ end.result = <<>>
        THEN [error |-> "NotFound: trust", found |-> <<>>]
        ELSE [error |-> "none", found |-> end.result]

\* trust_show(keys[-1]) returns an entry (a NotFound under cn=ad, the first
\* container it looks in, is kept and raised at the end)
trust_show_finds(realm) == trust_show(realm).error = "none"

\* What a join may do: the full-credential join raises NotFound, returns
\* None, or returns its result; the half-credential join raises or returns.
JoinOutcomes(full_join, req) ==
    IF full_join THEN {"NotFound", "None", "ok"}
    ELSE IF req.trust_secret THEN {"error", "ok"}
    ELSE {"not called"}

\* The trust entry a successful join writes under cn=ad,cn=trusts.
join_writes(realm, sid) ==
    LET dn == <<"ad", dns_domain(realm)>>
        generation == IF dn \in DOMAIN trusts THEN trusts[dn].generation + 1
                      ELSE 1
    IN  (dn :> [ipanttrusteddomainsid |-> sid,
                ipanttrusttype |-> 2,
                ipanttrustdirection |-> 3,
                generation |-> generation]) @@ trusts

ExecuteAdHalfVerified(full_join, req, dom_sid, outcome) ==
    LET summary == IF trust_show_finds(req.realm) THEN "Re-established"
                   ELSE "Added"
        none == [error |-> "none", join |-> "none", verified |-> FALSE,
                 value |-> <<>>, summary |-> "", trusts |-> trusts,
                 did |-> <<"trust_show">>]
        full == [none EXCEPT
                    !.did = <<"trust_show", "join_ad_full_credentials">>]
        half == [none EXCEPT !.did = <<"trust_show", "join_ad_ipa_half">>]
    IN  IF full_join
        THEN CASE outcome = "NotFound" ->
                    [full EXCEPT !.error = "NotFound: domain controller"]
               [] outcome = "None" ->
                    [full EXCEPT !.error = "ValidationError: write permissions"]
               [] OTHER ->
                    [full EXCEPT !.join = "full", !.verified = TRUE,
                                 !.value = <<dns_domain(req.realm)>>,
                                 !.summary = summary,
                                 !.trusts = join_writes(req.realm, dom_sid)]
        ELSE IF req.trust_secret
        THEN IF outcome = "error"
             THEN [half EXCEPT !.error = "join_ad_ipa_half failed"]
             ELSE [half EXCEPT !.join = "half", !.verified = TRUE,
                               !.value = <<dns_domain(req.realm)>>,
                               !.summary = summary,
                               !.trusts = join_writes(req.realm, dom_sid)]
        ELSE [none EXCEPT !.error = "ValidationError: not enough arguments"]

ExecuteAdSecretFirst(full_join, req, dom_sid, outcome) ==
    LET summary == IF trust_show_finds(req.realm) THEN "Re-established"
                   ELSE "Added"
        none == [error |-> "none", join |-> "none", verified |-> FALSE,
                 value |-> <<>>, summary |-> "", trusts |-> trusts,
                 did |-> <<"trust_show">>]
        full == [none EXCEPT
                    !.did = <<"trust_show", "join_ad_full_credentials">>]
        half == [none EXCEPT !.did = <<"trust_show", "join_ad_ipa_half">>]
    IN  IF req.trust_secret
        THEN IF outcome \in {"error", "NotFound", "None"}
             THEN [half EXCEPT !.error = "join_ad_ipa_half failed"]
             ELSE [half EXCEPT !.join = "half", !.verified = FALSE,
                               !.value = <<dns_domain(req.realm)>>,
                               !.summary = summary,
                               !.trusts = join_writes(req.realm, dom_sid)]
        ELSE IF full_join
        THEN CASE outcome = "NotFound" ->
                    [full EXCEPT !.error = "NotFound: domain controller"]
               [] outcome = "None" ->
                    [full EXCEPT !.error = "ValidationError: write permissions"]
               [] OTHER ->
                    [full EXCEPT !.join = "full", !.verified = TRUE,
                                 !.value = <<dns_domain(req.realm)>>,
                                 !.summary = summary,
                                 !.trusts = join_writes(req.realm, dom_sid)]
        ELSE [none EXCEPT !.error = "ValidationError: not enough arguments"]

\* execute_ad: the error raised, the join made, the result (verified,
\* value, summary), cn=trusts afterwards, and the calls made
execute_ad(full_join, req, dom_sid, outcome) ==
    LET summary == IF trust_show_finds(req.realm) THEN "Re-established"
                   ELSE "Added"
        none == [error |-> "none", join |-> "none", verified |-> FALSE,
                 value |-> <<>>, summary |-> "", trusts |-> trusts,
                 did |-> <<"trust_show">>]
        full == [none EXCEPT
                    !.did = <<"trust_show", "join_ad_full_credentials">>]
        half == [none EXCEPT !.did = <<"trust_show", "join_ad_ipa_half">>]
    IN  IF full_join
        THEN CASE outcome = "NotFound" ->
                    [full EXCEPT !.error = "NotFound: domain controller"]
               [] outcome = "None" ->
                    [full EXCEPT !.error = "ValidationError: write permissions"]
               [] OTHER ->
                    [full EXCEPT !.join = "full", !.verified = TRUE,
                                 !.value = <<dns_domain(req.realm)>>,
                                 !.summary = summary,
                                 !.trusts = join_writes(req.realm, dom_sid)]
        ELSE IF req.trust_secret
        THEN IF outcome = "error"
             THEN [half EXCEPT !.error = "join_ad_ipa_half failed"]
             ELSE [half EXCEPT !.join = "half", !.verified = FALSE,
                               !.value = <<dns_domain(req.realm)>>,
                               !.summary = summary,
                               !.trusts = join_writes(req.realm, dom_sid)]
        ELSE [none EXCEPT !.error = "ValidationError: not enough arguments"]

\* api.Command['idrange_add'](...): the error raised, cn=ranges afterwards,
\* and the call made
idrange_add(name, entry, refused) ==
    IF name \in DOMAIN ranges
    THEN [error |-> "DuplicateEntry", ranges |-> ranges,
          did |-> <<"idrange_add">>]
    ELSE IF refused
    THEN [error |-> "idrange_add failed", ranges |-> ranges,
          did |-> <<"idrange_add">>]
    ELSE [error |-> "none", ranges |-> (name :> entry) @@ ranges,
          did |-> <<"idrange_add">>]

RECURSIVE Digits(_)
\* The decimal digits of n >= 0.
Digits(n) == IF n < 10 THEN <<n>> ELSE Append(Digits(n \div 10), n % 10)

RECURSIVE StrLess(_, _)
\* s < t for two strings of digits, as Python compares strings
StrLess(s, t) ==
    IF t = <<>> THEN FALSE
    ELSE IF s = <<>> THEN TRUE
    ELSE IF Head(s) # Head(t) THEN Head(s) < Head(t)
    ELSE StrLess(Tail(s), Tail(t))

\* max(max_uid, max_gid) of two attribute values, each None or a list of
\* one string of digits: None is below every list, and lists compare by
\* their strings
py_max(max_uid, max_gid) ==
    IF max_gid = <<>> THEN max_uid
    ELSE IF max_uid = <<>> THEN max_gid
    ELSE IF StrLess(Digits(max_uid[1]), Digits(max_gid[1])) THEN max_gid
    ELSE max_uid

DiscoverCeiling(req, disc) ==
    LET nothing == [range_type |-> <<>>, base_id |-> <<>>, range_size |-> <<>>]
    IN  IF req.range_type \in {<<>>, <<"ipa-ad-trust-posix">>}
           /\ disc # NoInfo
           /\ disc[1].msSFU30MaxUidNumber # <<>>
           /\ disc[1].msSFU30OrderNumber # <<>>
        THEN LET max_id == py_max(disc[1].msSFU30MaxUidNumber,
                                  disc[1].msSFU30MaxGidNumber)[1]
                 base_id == disc[1].msSFU30OrderNumber[1]
             IN  [range_type |-> <<"ipa-ad-trust-posix">>,
                  base_id |-> <<base_id>>,
                  range_size |->
                      <<(-((base_id - max_id) \div DEFAULT_RANGE_SIZE))
                            * DEFAULT_RANGE_SIZE>>]
        ELSE nothing

\* add_range, first part: what the discovery derives (range type, base id,
\* range size; <<>> is None)
discover(req, disc) ==
    LET nothing == [range_type |-> <<>>, base_id |-> <<>>, range_size |-> <<>>]
    IN  IF req.range_type \in {<<>>, <<"ipa-ad-trust-posix">>}
           /\ disc # NoInfo
           /\ disc[1].msSFU30MaxUidNumber # <<>>
           /\ disc[1].msSFU30OrderNumber # <<>>
        THEN LET max_id == py_max(disc[1].msSFU30MaxUidNumber,
                                  disc[1].msSFU30MaxGidNumber)[1]
                 base_id == disc[1].msSFU30OrderNumber[1]
             IN  [range_type |-> <<"ipa-ad-trust-posix">>,
                  base_id |-> <<base_id>>,
                  range_size |->
                      <<(1 + ((max_id - base_id) \div DEFAULT_RANGE_SIZE))
                            * DEFAULT_RANGE_SIZE>>]
        ELSE nothing

RECURSIVE SearchLoop(_, _)
\* add_range, the loop `for retry in range(10)` from `retry` on: the
\* info_list it ends with and the number of searches made
SearchLoop(answers, retry) ==
    LET info_list == answers[retry + 1]
    IN  IF info_list # <<>> \/ retry + 1 >= RETRIES
        THEN [info_list |-> info_list, queries |-> retry + 1]
        ELSE SearchLoop(answers, retry + 1)

AddRangeHashFromZero(name, dom_sid, req, answers, refused) ==
    IF req.range_type \in {<<>>, <<"ipa-ad-trust-posix">>}
       /\ ~configured
    THEN [error |-> "NotFound: own domain not configured", ranges |-> ranges,
          did |-> <<>>]
    ELSE
    LET searched == IF req.range_type \in {<<>>, <<"ipa-ad-trust-posix">>}
                    THEN SearchLoop(answers, 0)
                    ELSE [info_list |-> NoInfo, queries |-> 0]
        searches == [i \in 1..searched.queries |-> "search_in_dc"]
        found == discover(req, searched.info_list)
        range_type == IF req.range_type # <<>> THEN req.range_type[1]
                      ELSE IF found.range_type = <<>> THEN "ipa-ad-trust"
                      ELSE found.range_type[1]
        range_size == IF Truthy(req.range_size) THEN req.range_size[1]
                      ELSE IF ~Truthy(found.range_size) THEN DEFAULT_RANGE_SIZE
                      ELSE found.range_size[1]
        hashed == ~Truthy(req.base_id) /\ ~Truthy(found.base_id)
        base_id == IF Truthy(req.base_id) THEN req.base_id[1]
                   ELSE IF hashed
                   THEN (murmurhash3(dom_sid) % 10000) * DEFAULT_RANGE_SIZE
                   ELSE found.base_id[1]
    IN  IF hashed /\ ~murmur_installed
        THEN [error |-> "NameError: pysss_murmur", ranges |-> ranges,
              did |-> searches]
        ELSE [idrange_add(name,
                          [ipabaseid |-> base_id,
                           ipaidrangesize |-> range_size,
                           ipabaserid |-> 0,
                           iparangetype |-> range_type,
                           ipanttrusteddomainsid |-> dom_sid],
                          refused)
                EXCEPT !.did = searches \o @]

AddRangeAlwaysSearches(name, dom_sid, req, answers, refused) ==
    IF req.range_type \in {<<>>, <<"ipa-ad-trust-posix">>}
       /\ ~configured
    THEN [error |-> "NotFound: own domain not configured", ranges |-> ranges,
          did |-> <<>>]
    ELSE
    LET searched == SearchLoop(answers, 0)
        searches == [i \in 1..searched.queries |-> "search_in_dc"]
        found == discover(req, searched.info_list)
        range_type == IF req.range_type # <<>> THEN req.range_type[1]
                      ELSE IF found.range_type = <<>> THEN "ipa-ad-trust"
                      ELSE found.range_type[1]
        range_size == IF Truthy(req.range_size) THEN req.range_size[1]
                      ELSE IF ~Truthy(found.range_size) THEN DEFAULT_RANGE_SIZE
                      ELSE found.range_size[1]
        hashed == ~Truthy(req.base_id) /\ ~Truthy(found.base_id)
        base_id == IF Truthy(req.base_id) THEN req.base_id[1]
                   ELSE IF hashed
                   THEN DEFAULT_RANGE_SIZE
                        + (murmurhash3(dom_sid) % 10000) * DEFAULT_RANGE_SIZE
                   ELSE found.base_id[1]
    IN  IF hashed /\ ~murmur_installed
        THEN [error |-> "NameError: pysss_murmur", ranges |-> ranges,
              did |-> searches]
        ELSE [idrange_add(name,
                          [ipabaseid |-> base_id,
                           ipaidrangesize |-> range_size,
                           ipabaserid |-> 0,
                           iparangetype |-> range_type,
                           ipanttrusteddomainsid |-> dom_sid],
                          refused)
                EXCEPT !.did = searches \o @]

\* add_range: the error raised, cn=ranges afterwards, and the calls made
add_range(name, dom_sid, req, answers, refused) ==
    IF req.range_type \in {<<>>, <<"ipa-ad-trust-posix">>}
       /\ ~configured
    THEN [error |-> "NotFound: own domain not configured", ranges |-> ranges,
          did |-> <<>>]
    ELSE
    LET searched == IF req.range_type \in {<<>>, <<"ipa-ad-trust-posix">>}
                    THEN SearchLoop(answers, 0)
                    ELSE [info_list |-> NoInfo, queries |-> 0]
        searches == [i \in 1..searched.queries |-> "search_in_dc"]
        found == discover(req, searched.info_list)
        range_type == IF req.range_type # <<>> THEN req.range_type[1]
                      ELSE IF found.range_type = <<>> THEN "ipa-ad-trust"
                      ELSE found.range_type[1]
        range_size == IF Truthy(req.range_size) THEN req.range_size[1]
                      ELSE IF ~Truthy(found.range_size) THEN DEFAULT_RANGE_SIZE
                      ELSE found.range_size[1]
        hashed == ~Truthy(req.base_id) /\ ~Truthy(found.base_id)
        base_id == IF Truthy(req.base_id) THEN req.base_id[1]
                   ELSE IF hashed
                   THEN DEFAULT_RANGE_SIZE
                        + (murmurhash3(dom_sid) % 10000) * DEFAULT_RANGE_SIZE
                   ELSE found.base_id[1]
    IN  IF hashed /\ ~murmur_installed
        THEN [error |-> "NameError: pysss_murmur", ranges |-> ranges,
              did |-> searches]
        ELSE [idrange_add(name,
                          [ipabaseid |-> base_id,
                           ipaidrangesize |-> range_size,
                           ipabaserid |-> 0,
                           iparangetype |-> range_type,
                           ipanttrusteddomainsid |-> dom_sid],
                          refused)
                EXCEPT !.did = searches \o @]

----------------------------------------------------------------------------
(* trust_add.execute                                                        *)

\* The record of a call: the realm it was made for, the error it raised,
\* the join it made, the domain SID it found, the verified, value and
\* summary that execute_ad returned, the truststatus of the result, the DN
\* of the entry that trust_show, trust_del or trust_mod found, and the calls
\* it made to the local domain, the foreign domain and the directory, in
\* order.
NoCall ==
    [realm |-> <<>>, error |-> "none", join |-> "none", dom_sid |-> <<>>,
     verified |-> FALSE, value |-> <<>>, summary |-> "", truststatus |-> "",
     found |-> <<>>, did |-> <<>>]

InitTrust ==
    /\ bindings_installed \in BOOLEAN
    /\ murmur_installed \in BOOLEAN
    /\ configured \in BOOLEAN
    /\ trusts = <<>>
    /\ ranges = <<>>
    /\ ncalls = 0
    /\ last = NoCall
    /\ request = <<>>
    \* no trustconfig command is made
    /\ entries = <<>>
    /\ trustconfig = <<>>
    /\ reply = <<>>
    \* no upgrade is in progress
    /\ pc = "done"
    /\ config = [a \in Attrs |-> <<>>]
    /\ savefile = <<>>
    /\ sstore = [k \in SavedKeys |-> <<>>]
    /\ running = FALSE
    /\ connected = FALSE
    /\ ds_running = FALSE
    /\ schema_files = FALSE
    /\ modified = FALSE
    /\ steps = <<>>
    /\ idx = 0
    /\ failed = FALSE
    /\ log = <<>>
    /\ pre = [config |-> [a \in Attrs |-> <<>>], running |-> FALSE]

\* The calls kept in the record of a call: the searches in the foreign
\* domain controller are kept for the command examined only.
Kept(did) ==
    IF request' # <<>> THEN did
    ELSE SelectSeq(did, LAMBDA call : call # "search_in_dc")

\* How a call ends: the directory as the call leaves it, and the record of
\* the call, with the truststatus that execute puts into the result.
Return(rec, newTrusts, newRanges) ==
    /\ trusts' = newTrusts
    /\ ranges' = newRanges
    /\ ncalls' = ncalls + 1
    /\ last' = IF rec.error # "none" THEN [rec EXCEPT !.did = Kept(@)]
               ELSE [rec EXCEPT
                        !.did = Kept(@),
                        !.truststatus = trust_status_string(rec.verified)]
    /\ UNCHANGED <<bindings_installed, murmur_installed, configured>>

JoinAndAddRangeDespiteFailure(req, full_join, old_range, rec, infos) ==
    \E outcome \in JoinOutcomes(full_join, req) :
        LET joined == execute_ad(full_join, req, rec.dom_sid[1], outcome)
            result == [rec EXCEPT !.error = joined.error,
                                  !.join = joined.join,
                                  !.verified = joined.verified,
                                  !.value = joined.value,
                                  !.summary = joined.summary,
                                  !.did = @ \o joined.did]
        IN  IF old_range # <<>>
            THEN Return(result, joined.trusts, ranges)
            ELSE \E answers \in infos, refused \in BOOLEAN :
                    LET added == add_range(range_name(req.realm),
                                           rec.dom_sid[1], req, answers,
                                           refused)
                    IN  Return([result EXCEPT
                                   !.error = IF joined.error # "none"
                                             THEN joined.error
                                             ELSE added.error,
                                   !.did = @ \o added.did],
                               joined.trusts, added.ranges)

JoinAndAlwaysAddRange(req, full_join, old_range, rec, infos) ==
    \E outcome \in JoinOutcomes(full_join, req) :
        LET joined == execute_ad(full_join, req, rec.dom_sid[1], outcome)
            result == [rec EXCEPT !.error = joined.error,
                                  !.join = joined.join,
                                  !.verified = joined.verified,
                                  !.value = joined.value,
                                  !.summary = joined.summary,
                                  !.did = @ \o joined.did]
        IN  IF joined.error # "none"
            THEN Return(result, joined.trusts, ranges)
            ELSE \E answers \in infos, refused \in BOOLEAN :
                    LET added == add_range(range_name(req.realm),
                                           rec.dom_sid[1], req, answers,
                                           refused)
                    IN  Return([result EXCEPT !.error = added.error,
                                              !.did = @ \o added.did],
                               joined.trusts, added.ranges)

\* execute, after validate_range: the join, then the range if there was none
JoinAndAddRange(req, full_join, old_range, rec, infos) ==
    \E outcome \in JoinOutcomes(full_join, req) :
        LET joined == execute_ad(full_join, req, rec.dom_sid[1], outcome)
            result == [rec EXCEPT !.error = joined.error,
                                  !.join = joined.join,
                                  !.verified = joined.verified,
                                  !.value = joined.value,
                                  !.summary = joined.summary,
                                  !.did = @ \o joined.did]
        IN  IF joined.error # "none" \/ old_range # <<>>
            THEN Return(result, joined.trusts, ranges)
            ELSE \E answers \in infos, refused \in BOOLEAN :
                    LET added == add_range(range_name(req.realm),
                                           rec.dom_sid[1], req, answers,
                                           refused)
                    IN  Return([result EXCEPT !.error = added.error,
                                              !.did = @ \o added.did],
                               joined.trusts, added.ranges)

ExecuteJoinFirst(req, infos) ==
    LET validated == validate_options(req)
        old_range == idrange_show(range_name(req.realm))
        start == [NoCall EXCEPT !.realm = req.realm]
    IN  IF validated.error # "none"
        THEN Return([start EXCEPT !.error = validated.error], trusts, ranges)
        ELSE \E populate \in {<<>>} \cup {<<sid>> : sid \in Sids},
                outcome \in JoinOutcomes(validated.full_join, req) :
                LET sid == IF populate = <<>> THEN "S-1-5-21-1"
                           ELSE populate[1]
                    joined == execute_ad(validated.full_join, req, sid,
                                         outcome)
                    checked == validate_range(old_range, req, populate)
                IN  Return([start EXCEPT
                               !.error = IF joined.error # "none"
                                         THEN joined.error
                                         ELSE checked.error,
                               !.join = joined.join,
                               !.verified = joined.verified,
                               !.value = joined.value,
                               !.summary = joined.summary,
                               !.dom_sid = checked.dom_sid,
                               !.did = <<"validate_options">> \o joined.did
                                            \o checked.did],
                           joined.trusts, ranges)

\* trust_add.execute; `infos` are the answers the foreign domain controller
\* may give to the searches of add_range
execute(req, infos) ==
    LET validated == validate_options(req)
        old_range == idrange_show(range_name(req.realm))
        start == [NoCall EXCEPT !.realm = req.realm]
    IN  IF validated.error # "none"
        THEN Return([start EXCEPT !.error = validated.error], trusts, ranges)
        ELSE \E populate \in {<<>>} \cup {<<sid>> : sid \in Sids} :
                LET checked == validate_range(old_range, req, populate)
                    rec == [start EXCEPT
                               !.error = checked.error,
                               !.dom_sid = checked.dom_sid,
                               !.did = <<"validate_options">> \o checked.did]
                IN  IF checked.error # "none"
                    THEN Return(rec, trusts, ranges)
                    ELSE JoinAndAddRange(req, validated.full_join, old_range,
                                         rec, infos)

\* A trust-add command, one of a sequence of them
TrustAdd ==
    /\ ncalls < MaxCalls
    /\ UNCHANGED request
    /\ \E req \in Requests : execute(req, DiscAnswers)
    /\ UNCHANGED <<upgradeVars, configVars>>

NextTrust == TrustAdd

----------------------------------------------------------------------------
(* One command, made on a directory that earlier commands have filled       *)

\* realm_admin, as split('@') cuts it: absent, a plain name, or a name with
\* a realm (UPN format)
Admins ==
    {<<>>, <<"Administrator">>, <<"Administrator", <<"A", "D">>>>,
     <<"Administrator", <<"n", "t">>>>}

\* The trust_add commands examined: every combination of the options.
CommandRequests ==
    {[realm |-> realm, trust_type |-> trust_type, realm_admin |-> realm_admin,
      realm_passwd |-> realm_passwd, trust_secret |-> trust_secret,
      base_id |-> base_id, range_size |-> range_size,
      range_type |-> range_type] :
        realm \in Realms,
        trust_type \in {<<>>, <<"ad">>, <<"ipa">>},
        realm_admin \in Admins,
        realm_passwd \in BOOLEAN,
        trust_secret \in BOOLEAN,
        base_id \in {<<>>, <<0>>, <<400000>>},
        range_size \in {<<>>, <<0>>, <<100000>>},
        range_type \in {<<>>, <<"ipa-ad-trust">>, <<"ipa-ad-trust-posix">>}}

\* The entry of the trust with the domain "ad", as a join wrote it.
AdTrust ==
    [ipanttrusteddomainsid |-> "S-1-5-21-1", ipanttrusttype |-> 2,
     ipanttrustdirection |-> 3, generation |-> 1]

\* The range of the domain "ad", as add_range wrote it without options:
\* with the hashed base id, or with what the discovery derived.
AdRanges ==
    {[ipabaseid |-> 2000000000, ipaidrangesize |-> 200000, ipabaserid |-> 0,
      iparangetype |-> "ipa-ad-trust",
      ipanttrusteddomainsid |-> "S-1-5-21-1"],
     [ipabaseid |-> 2000000, ipaidrangesize |-> 1200000, ipabaserid |-> 0,
      iparangetype |-> "ipa-ad-trust-posix",
      ipanttrusteddomainsid |-> "S-1-5-21-1"]}

\* cn=trusts and cn=ranges as earlier commands may have left them: empty;
\* the trust with its range; the trust alone (its range was refused); the
\* range alone (the trust was deleted); the trust held by cn=ipa.
Directories ==
    {[trusts |-> <<>>, ranges |-> <<>>],
     [trusts |-> (<<"ad", <<"a", "d">>>> :> AdTrust), ranges |-> <<>>],
     [trusts |-> (<<"ipa", <<"a", "d">>>> :> AdTrust), ranges |-> <<>>]}
    \cup {[trusts |-> (<<"ad", <<"a", "d">>>> :> AdTrust),
           ranges |-> (range_name(<<"a", "d">>) :> range)] :
                range \in AdRanges}
    \cup {[trusts |-> <<>>, ranges |-> (range_name(<<"a", "d">>) :> range)] :
                range \in AdRanges}

InitCommand ==
    /\ bindings_installed \in BOOLEAN
    /\ murmur_installed \in BOOLEAN
    /\ configured \in BOOLEAN
    /\ \E directory \in Directories :
            trusts = directory.trusts /\ ranges = directory.ranges
    /\ ncalls = 0
    /\ last = NoCall
    /\ request = <<>>
    \* no trustconfig command is made
    /\ entries = <<>>
    /\ trustconfig = <<>>
    /\ reply = <<>>
    \* no upgrade is in progress
    /\ pc = "done"
    /\ config = [a \in Attrs |-> <<>>]
    /\ savefile = <<>>
    /\ sstore = [k \in SavedKeys |-> <<>>]
    /\ running = FALSE
    /\ connected = FALSE
    /\ ds_running = FALSE
    /\ schema_files = FALSE
    /\ modified = FALSE
    /\ steps = <<>>
    /\ idx = 0
    /\ failed = FALSE
    /\ log = <<>>
    /\ pre = [config |-> [a \in Attrs |-> <<>>], running |-> FALSE]

\* The call made `what`.
Did(rec, what) == \E i \in DOMAIN rec.did : rec.did[i] = what

\* The answers to try on a command: all of them if the command can get as
\* far as the search of add_range; two of them, nothing and an entry, if it
\* can get as far as add_range with another range type; else one, which is
\* not looked at.
AnswersFor(req) ==
    IF /\ validate_options(req).error = "none"
       /\ idrange_show(range_name(req.realm)) = <<>>
    THEN IF req.range_type \in {<<>>, <<"ipa-ad-trust-posix">>}
         THEN CommandDiscAnswers
         ELSE {Answers(info_list, 0) : info_list \in DiscInfos}
    ELSE {Answers(NoInfo, 0)}

\* The trust-add command examined; the history keeps its options, the
\* answers that the foreign domain controller has for the searches of
\* add_range, and the one that the searches end with
TrustAddCommand ==
    /\ request = <<>>
    /\ \E req \in CommandRequests :
         \E answers \in AnswersFor(req) :
            /\ request' = <<[command |-> "trust_add", options |-> req,
                             answers |-> answers,
                             info |-> SearchLoop(answers, 0).info_list]>>
            /\ execute(req, {answers})
    /\ UNCHANGED <<upgradeVars, configVars>>

\* The values given for a SID blacklist: none, a SID, something else.
Blacklists == {<<>>, <<"S-1-5-21-3">>, <<"S-1-5-21-3", "bogus">>}

\* ipaserver.dcerpc.is_sid_valid
is_sid_valid(value) == value \in Sids \cup {"S-1-5-21-3"}

ValidateIncomingOnly(entry_attrs) ==
    IF ~bindings_installed THEN "none"
    ELSE IF \E i \in DOMAIN entry_attrs.ipantsidblacklistincoming :
                ~is_sid_valid(entry_attrs.ipantsidblacklistincoming[i])
    THEN "ValidationError: ipantsidblacklistincoming"
    ELSE "none"

\* trust.validate_sid_blacklists: the error raised ("none" when it returns)
validate_sid_blacklists(entry_attrs) ==
    IF ~bindings_installed THEN "none"
    ELSE IF \E i \in DOMAIN entry_attrs.ipantsidblacklistincoming :
                ~is_sid_valid(entry_attrs.ipantsidblacklistincoming[i])
    THEN "ValidationError: ipantsidblacklistincoming"
    ELSE IF \E i \in DOMAIN entry_attrs.ipantsidblacklistoutgoing :
                ~is_sid_valid(entry_attrs.ipantsidblacklistoutgoing[i])
    THEN "ValidationError: ipantsidblacklistoutgoing"
    ELSE "none"

\* A command on one trust ends: the record of it, and cn=trusts afterwards
\* (trust_add calls are not counted, cn=ranges is not touched)
Answer(rec, newTrusts) ==
    /\ last' = rec
    /\ trusts' = newTrusts
    /\ UNCHANGED <<bindings_installed, murmur_installed, configured, ranges,
                   ncalls>>

\* trust_show.post_callback: entry_attrs as it leaves them
post_callback(entry_attrs, raw) ==
    IF ~raw
    THEN [trusttype |-> <<trust_type_string(entry_attrs.ipanttrusttype)>>,
          trustdirection
             |-> <<trust_direction_string(entry_attrs.ipanttrustdirection)>>]
         @@ [a \in DOMAIN entry_attrs
                      \ {"ipanttrusttype", "ipanttrustdirection"}
               |-> entry_attrs[a]]
    ELSE entry_attrs

\* The trust-show command
TrustShow ==
    /\ request = <<>>
    /\ \E realm \in Realms, raw \in BOOLEAN :
         LET shown == trust_show(realm)
         IN  /\ Answer([NoCall EXCEPT !.realm = realm,
                                      !.error = shown.error,
                                      !.found = shown.found,
                                      !.did = <<"trust_show">>],
                       trusts)
             /\ request' = <<[command |-> "trust_show",
                              options |-> [realm |-> realm, raw |-> raw],
                              result |->
                                 IF shown.error # "none" THEN <<>>
                                 ELSE <<post_callback(trusts[shown.found[1]],
                                                      raw)>>]>>
    /\ UNCHANGED <<upgradeVars, configVars>>

\* The trust-del command: pre_callback finds the entry, LDAPDelete removes it
TrustDel ==
    /\ request = <<>>
    /\ \E realm \in Realms :
         LET shown == trust_show(realm)
             rec == [NoCall EXCEPT !.realm = realm,
                                   !.error = shown.error,
                                   !.found = shown.found,
                                   !.did = <<"trust_show">>]
         IN  /\ IF shown.error # "none" THEN Answer(rec, trusts)
                ELSE Answer([rec EXCEPT !.did = @ \o <<"delete_entry">>],
                            [dn \in DOMAIN trusts \ {shown.found[1]}
                                |-> trusts[dn]])
             /\ request' = <<[command |-> "trust_del",
                              options |-> [realm |-> realm]]>>
    /\ UNCHANGED <<upgradeVars, configVars>>

\* The trust-mod command: pre_callback finds the entry and validates the
\* SID blacklists, LDAPUpdate writes the attributes given
TrustMod ==
    /\ request = <<>>
    /\ \E realm \in Realms, incoming \in Blacklists, outgoing \in Blacklists :
         LET entry_attrs == [ipantsidblacklistincoming |-> incoming,
                             ipantsidblacklistoutgoing |-> outgoing]
             shown == trust_show(realm)
             rec == [NoCall EXCEPT !.realm = realm,
                                   !.error = shown.error,
                                   !.found = shown.found,
                                   !.did = <<"trust_show">>]
             invalid == validate_sid_blacklists(entry_attrs)
         IN  /\ IF shown.error # "none" THEN Answer(rec, trusts)
                ELSE IF invalid # "none"
                THEN Answer([rec EXCEPT !.error = invalid], trusts)
                ELSE Answer([rec EXCEPT !.did = @ \o <<"update_entry">>],
                            [trusts EXCEPT
                                ![shown.found[1]] = entry_attrs @@ @])
             /\ request' = <<[command |-> "trust_mod",
                              options |-> [realm |-> realm] @@ entry_attrs]>>
    /\ UNCHANGED <<upgradeVars, configVars>>

NextCommand == TrustAddCommand \/ TrustShow \/ TrustDel \/ TrustMod

\* The encoded trust types and directions that an entry may hold
Levels == {0, 1, 2, 3, 4}

\* InitShow: the directory holds one trust, with any type and direction
InitShow ==
    /\ bindings_installed \in BOOLEAN
    /\ murmur_installed \in BOOLEAN
    /\ configured \in BOOLEAN
    /\ \E type \in Levels, direction \in Levels :
            trusts = (<<"ad", <<"a", "d">>>>
                        :> [AdTrust EXCEPT !.ipanttrusttype = type,
                                           !.ipanttrustdirection = direction])
    /\ ranges = <<>>
    /\ ncalls = 0
    /\ last = NoCall
    /\ request = <<>>
    \* no trustconfig command is made
    /\ entries = <<>>
    /\ trustconfig = <<>>
    /\ reply = <<>>
    \* no upgrade is in progress
    /\ pc = "done"
    /\ config = [a \in Attrs |-> <<>>]
    /\ savefile = <<>>
    /\ sstore = [k \in SavedKeys |-> <<>>]
    /\ running = FALSE
    /\ connected = FALSE
    /\ ds_running = FALSE
    /\ schema_files = FALSE
    /\ modified = FALSE
    /\ steps = <<>>
    /\ idx = 0
    /\ failed = FALSE
    /\ log = <<>>
    /\ pre = [config |-> [a \in Attrs |-> <<>>], running |-> FALSE]

NextShow == TrustShow

----------------------------------------------------------------------------
(* trustconfig: the fallback primary group                                  *)

\* A string is the sequence of its tokens: a name is one token, and the
\* string of a DN is attr = value , attr = value ...
FALLBACK == "ipantfallbackprimarygroup"

\* DN(text): <<>> when the constructor raises ValueError, else <<dn>>, the
\* DN as the sequence of its RDNs <<attr, value>>
DN(text) ==
    IF /\ Len(text) % 4 = 3
       /\ \A i \in DOMAIN text :
            /\ (i % 4 = 2) => text[i] = "="
            /\ (i % 4 = 0) => text[i] = ","
            /\ (i % 4 \in {1, 3}) => text[i] \notin {"=", ","}
    THEN <<[k \in 1..((Len(text) + 1) \div 4)
               |-> <<text[4 * k - 3], text[4 * k - 1]>>]>>
    ELSE <<>>

\* str(dn)
RECURSIVE str_dn(_)
str_dn(dn) ==
    IF Len(dn) = 1 THEN <<dn[1][1], "=", dn[1][2]>>
    ELSE <<dn[1][1], "=", dn[1][2], ",">> \o str_dn(Tail(dn))

basedn == <<<<"dc", "example">>>>
container_group == <<<<"cn", "groups">>>>
container_user == <<<<"cn", "users">>>>

\* The entry of a group or of a user
GroupEntry(cn, objectclass) ==
    [dn |-> <<<<"cn", cn>>>> \o container_group \o basedn,
     cn |-> {<<cn>>}, objectclass |-> objectclass]

UserEntry(uid) ==
    [dn |-> <<<<"uid", uid>>>> \o container_user \o basedn,
     cn |-> {<<uid>>}, objectclass |-> {"posixaccount"}]

\* The accounts a directory may hold: a POSIX user group, the POSIX group
\* that is no user group, a user group that is no POSIX group, and a user
Accounts ==
    {GroupEntry("admins", {"posixgroup", "ipausergroup"}),
     GroupEntry("Default SMB Group", {"posixgroup"}),
     GroupEntry("editors", {"ipausergroup"}),
     UserEntry("alice")}

\* The directory that holds these accounts
EntriesOf(accounts) ==
    [dn \in {a.dn : a \in accounts}
        |-> CHOOSE a \in accounts : a.dn = dn]

\* The fallback primary groups a command may name, by name and by DN
GroupTexts ==
    {<<"admins">>, <<"Default SMB Group">>, <<"editors">>, <<"nobody">>}
    \cup {str_dn(a.dn) : a \in Accounts}
    \cup {str_dn(<<<<"cn", "nobody">>>> \o container_group \o basedn)}

\* entry_attrs of trustconfig_mod: without the attribute, with None (<<>>),
\* or with a string
ModAttrs ==
    {<<>>} \cup {[ipantfallbackprimarygroup |-> v] :
                    v \in {<<>>} \cup {<<t>> : t \in GroupTexts}}

\* The trust_type option
ConfigTypes == {<<>>, <<"ad">>, <<"ipa">>}

\* trustconfig.get_dn: the error raised ("none" when it returns the DN)
get_dn(trust_type) ==
    IF trust_type = <<>> THEN "RequirementError: trust_type"
    ELSE IF trust_type[1] \notin {"ad"} THEN "ValidationError: trust_type"
    ELSE "none"

\* ldap.get_entry(dn) finds an entry
get_entry(dn) == dn \in DOMAIN entries

\* ldap.find_entry_by_attr: <<>> for NotFound, else <<dn>>
find_entry_by_attr(attr, value, object_classes, base_dn) ==
    LET found == {dn \in DOMAIN entries :
                    /\ Len(dn) > Len(base_dn)
                    /\ SubSeq(dn, Len(dn) - Len(base_dn) + 1, Len(dn)) = base_dn
                    /\ object_classes \subseteq entries[dn].objectclass
                    /\ value \in entries[dn][attr]}
    IN  IF found = {} THEN <<>> ELSE <<CHOOSE dn \in found : TRUE>>

\* trustconfig._normalize_groupdn: the error raised ("none" when it
\* returns) and entry_attrs as it leaves them
_normalize_groupdn(entry_attrs) ==
    IF FALLBACK \notin DOMAIN entry_attrs
    THEN [error |-> "none", entry_attrs |-> entry_attrs]
    ELSE IF entry_attrs[FALLBACK] = <<>>
    THEN [error |-> "none", entry_attrs |-> entry_attrs]
    ELSE LET group == entry_attrs[FALLBACK][1]
             dn == DN(group)
         IN  IF dn # <<>>
             THEN \* group is in a form of a DN
                  [error |-> IF get_entry(dn[1]) THEN "none"
                             ELSE "NotFound: group",
                   entry_attrs |-> entry_attrs]
             ELSE LET found == find_entry_by_attr("cn", group,
                                   {"posixgroup"},
                                   container_group \o basedn)
                  IN  IF found = <<>>
                      THEN [error |-> "NotFound: group",
                            entry_attrs |-> entry_attrs]
                      ELSE [error |-> "none",
                            entry_attrs |->
                               [ipantfallbackprimarygroup
                                  |-> <<str_dn(found[1])>>]]

ConvertWholeDn(entry_attrs, raw) ==
    entry_attrs[FALLBACK]

\* trustconfig._convert_groupdn: the attribute as it leaves it
_convert_groupdn(entry_attrs, raw) ==
    IF raw THEN entry_attrs[FALLBACK]
    ELSE IF entry_attrs[FALLBACK] = <<>> THEN <<>>
    ELSE LET groupdn == DN(entry_attrs[FALLBACK][1])[1]
         IN  <<<<groupdn[1][2]>>>>

\* A trustconfig command ends: the record of it, and the configuration
\* entry afterwards
Reply(rec, newConfig) ==
    /\ reply' = <<rec>>
    /\ trustconfig' = newConfig
    /\ UNCHANGED <<entries, upgradeVars, trustVars>>

\* The bare name or DN that the last successful trustconfig_mod was given
\* (<<>> when there was none, or when it gave None)
Typed == IF reply = <<>> THEN <<>> ELSE reply[1].typed

\* InitConfig: a directory with some of the accounts, with or without the
\* trust configuration entry, no command made
InitConfig ==
    /\ \E accounts \in SUBSET Accounts : entries = EntriesOf(accounts)
    /\ trustconfig \in {<<>>, <<[ipantfallbackprimarygroup |-> <<>>]>>}
    /\ reply = <<>>
    \* no trust command is made
    /\ bindings_installed = TRUE
    /\ murmur_installed = TRUE
    /\ configured = TRUE
    /\ trusts = <<>>
    /\ ranges = <<>>
    /\ ncalls = 0
    /\ last = NoCall
    /\ request = <<>>
    \* no upgrade is in progress
    /\ pc = "done"
    /\ config = [a \in Attrs |-> <<>>]
    /\ savefile = <<>>
    /\ sstore = [k \in SavedKeys |-> <<>>]
    /\ running = FALSE
    /\ connected = FALSE
    /\ ds_running = FALSE
    /\ schema_files = FALSE
    /\ modified = FALSE
    /\ steps = <<>>
    /\ idx = 0
    /\ failed = FALSE
    /\ log = <<>>
    /\ pre = [config |-> [a \in Attrs |-> <<>>], running |-> FALSE]

\* The trustconfig-mod command: get_dn, pre_callback, the update of the
\* entry (NotFound without the entry, EmptyModlist without a change), the
\* entry read again and post_callback
TrustconfigMod ==
    \E trust_type \in ConfigTypes, entry_attrs \in ModAttrs, raw \in BOOLEAN :
        LET rec == [command |-> "trustconfig_mod", trust_type |-> trust_type,
                    entry_attrs |-> entry_attrs, raw |-> raw,
                    error |-> "none", did |-> <<>>, value |-> <<>>,
                    result |-> <<>>, typed |-> Typed]
            normalized == _normalize_groupdn(entry_attrs)
            written == normalized.entry_attrs
        IN  IF get_dn(trust_type) # "none"
            THEN Reply([rec EXCEPT !.error = get_dn(trust_type)], trustconfig)
            ELSE IF normalized.error # "none"
            THEN Reply([rec EXCEPT !.error = normalized.error], trustconfig)
            ELSE IF trustconfig = <<>>
            THEN Reply([rec EXCEPT !.error = "NotFound: trust configuration"],
                       trustconfig)
            ELSE IF \/ FALLBACK \notin DOMAIN written
                    \/ written[FALLBACK] = trustconfig[1][FALLBACK]
            THEN Reply([rec EXCEPT !.error = "EmptyModlist"], trustconfig)
            ELSE Reply([rec EXCEPT
                          !.did = <<"update_entry">>,
                          !.value = trust_type,
                          !.result = _convert_groupdn(written, raw),
                          !.typed = entry_attrs[FALLBACK]],
                       <<written>>)

\* The trustconfig-show command: get_dn, the entry read, post_callback
TrustconfigShow ==
    \E trust_type \in ConfigTypes, raw \in BOOLEAN :
        LET rec == [command |-> "trustconfig_show", trust_type |-> trust_type,
                    entry_attrs |-> <<>>, raw |-> raw,
                    error |-> "none", did |-> <<>>, value |-> <<>>,
                    result |-> <<>>, typed |-> Typed]
        IN  IF get_dn(trust_type) # "none"
            THEN Reply([rec EXCEPT !.error = get_dn(trust_type)], trustconfig)
            ELSE IF trustconfig = <<>>
            THEN Reply([rec EXCEPT !.error = "NotFound: trust configuration"],
                       trustconfig)
            ELSE Reply([rec EXCEPT
                          !.value = trust_type,
                          !.result = _convert_groupdn(trustconfig[1], raw)],
                       trustconfig)

NextConfig == TrustconfigMod \/ TrustconfigShow

----------------------------------------------------------------------------
(* Specifications                                                           *)

SpecUpgrade == InitUpgrade /\ [][NextUpgrade]_vars

SpecTrust == InitTrust /\ [][NextTrust]_vars

SpecCommand == InitCommand /\ [][NextCommand]_vars

SpecShow == InitShow /\ [][NextShow]_vars

SpecConfig == InitConfig /\ [][NextConfig]_vars

----------------------------------------------------------------------------
(* Properties of trust_add                                                  *)

\* The step is a trust_add call.
Called == ncalls' # ncalls

\* The realm a range is named after.
RealmOfRange(name) == SubSeq(name, 1, Len(name) - 1)

\* C8: if a trust_add call fails, at any point and for any reason, it has
\* written nothing: no trust entry is created or changed and no range is
\* created.
C8_FailedCallWritesNothing ==
    [][(Called /\ last'.error # "none") =>
            (trusts' = trusts /\ ranges' = ranges)]_vars

\* C9: if a range already exists for the realm and its domain SID differs
\* from the domain SID discovered for the new call, the call fails, no join
\* is performed and no trust or range entry is created or modified.
C9_SidMismatchRejected ==
    [][(/\ Called
        /\ last'.dom_sid # <<>>
        /\ range_name(last'.realm) \in DOMAIN ranges
        /\ ranges[range_name(last'.realm)].ipanttrusteddomainsid
              # last'.dom_sid[1])
       => (/\ last'.error # "none"
           /\ last'.join = "none"
           /\ trusts' = trusts
           /\ ranges' = ranges)]_vars

C9_Witness ==
    /\ ncalls = 2
    /\ last.error = "ValidationError: range exists"
    /\ last.dom_sid # <<>>
    /\ range_name(last.realm) \in DOMAIN ranges
    /\ ranges[range_name(last.realm)].ipanttrusteddomainsid # last.dom_sid[1]
    /\ \E dn \in DOMAIN trusts :
          /\ dn[2] = lower(last.realm)
          /\ trusts[dn].generation = 1
          /\ trusts[dn].ipanttrusteddomainsid # last.dom_sid[1]

\* C10: after any sequence of trust_add calls, successful or failed, there
\* is at most one range per realm, and a range that existed before a call
\* is the same after it (base id, size, type and domain SID).
C10_OneRangePerRealmNeverChanged ==
    [][/\ \A n1, n2 \in DOMAIN ranges' :
            upper(RealmOfRange(n1)) = upper(RealmOfRange(n2)) => n1 = n2
       /\ \A n \in DOMAIN ranges :
            n \in DOMAIN ranges' /\ ranges'[n] = ranges[n]]_vars

C10_Witness ==
    /\ ncalls = 2
    /\ last.error = "none"
    /\ last.join # "none"
    /\ DOMAIN ranges = {range_name(last.realm)}
    /\ \E dn \in DOMAIN trusts : trusts[dn].generation = 2

----------------------------------------------------------------------------
(* Properties of one trust_add command                                      *)

\* The step is the trust_add command examined.
Commanded ==
    request = <<>> /\ request' # <<>> /\ request'[1].command = "trust_add"

\* The command examined was one of `commands`.
Examined(commands) == request # <<>> /\ request[1].command \in commands

\* The options of the command examined, in the step that makes it.
Options == request'[1].options

\* The errors that validate_range raises about an existing range.
RangeErrors ==
    {"ValidationError: id range", "ValidationError: range exists",
     "ValidationError: range type change"}

\* C11: for a realm that has a trust and a range whose domain SID is the one
\* discovered, a trust_add call without base id, range size or conflicting
\* range type is not refused because of the range and never ends in a
\* duplicate-entry error; when its join succeeds the call succeeds: the
\* trust is written again, the summary is the re-established one, and
\* cn=ranges is left as it was.
C11_ReestablishIsIdempotent ==
    [][(/\ Commanded
        /\ trust_show_finds(Options.realm)
        /\ range_name(Options.realm) \in DOMAIN ranges
        /\ last'.dom_sid
              = <<ranges[range_name(Options.realm)].ipanttrusteddomainsid>>
        /\ ~Truthy(Options.base_id)
        /\ ~Truthy(Options.range_size)
        /\ Options.range_type
              \in {<<>>, <<ranges[range_name(Options.realm)].iparangetype>>})
       => (/\ last'.error \notin RangeErrors \cup {"DuplicateEntry"}
           /\ ranges' = ranges
           /\ \A i \in DOMAIN last'.did : last'.did[i] # "idrange_add"
           /\ last'.join # "none" =>
                /\ last'.error = "none"
                /\ last'.summary = "Re-established"
                /\ trusts' = join_writes(Options.realm, last'.dom_sid[1])
                /\ trusts' # trusts)]_vars

C11_Witness ==
    /\ Examined({"trust_add"})
    /\ request[1].options.base_id = <<>>
    /\ request[1].options.range_size = <<>>
    /\ request[1].options.range_type = <<>>
    /\ last.error = "none"
    /\ last.join = "full"
    /\ last.summary = "Re-established"
    /\ DOMAIN ranges = {range_name(last.realm)}
    /\ ranges[range_name(last.realm)].ipanttrusteddomainsid = last.dom_sid[1]
    /\ \E dn \in DOMAIN trusts : trusts[dn].generation = 2

\* The preconditions of trust_add, each with the error that reports it.
JoinAvailable ==
    [holds |-> bindings_installed, errors |-> {"NotFound: no Samba 4 support"}]

OwnDomainConfigured ==
    [holds |-> configured, errors |-> {"NotFound: own domain not configured"}]

BaseIdOrHash(req) ==
    [holds |-> murmur_installed \/ req.base_id # <<>>,
     errors |-> {"ValidationError: missing base_id"}]

TrustTypeIsAd(req) ==
    [holds |-> req.trust_type = <<"ad">>,
     errors |-> {"RequirementError: trust type", "ValidationError: trust type"}]

AdminRealmMatches(req) ==
    [holds |-> Len(req.realm_admin) > 1 =>
                    lower(req.realm_admin[2]) = lower(req.realm),
     errors |-> {"ValidationError: different realms"}]

AdminHasPassword(req) ==
    [holds |-> req.realm_admin # <<>> => req.realm_passwd,
     errors |-> {"ValidationError: password should be specified"}]

OptionErrors ==
    UNION {JoinAvailable.errors, OwnDomainConfigured.errors,
           {"ValidationError: missing base_id"},
           {"RequirementError: trust type", "ValidationError: trust type"},
           {"ValidationError: different realms"},
           {"ValidationError: password should be specified"}}

\* The errors of the first precondition of the list that does not hold;
\* the empty set if they all hold.
FirstViolated(checks) ==
    LET violated == {i \in DOMAIN checks : ~checks[i].holds}
    IN  IF violated = {} THEN {}
        ELSE checks[CHOOSE i \in violated : \A j \in violated : i <= j].errors

\* The command reports the first precondition of the list that does not
\* hold, and none of them if they all hold.
ReportsFirstOf(checks) ==
    IF FirstViolated(checks) = {} THEN last'.error \notin OptionErrors
    ELSE last'.error \in FirstViolated(checks)

\* C12 as stated: the preconditions are checked in the order (a) join
\* capability available and own domain configured, (b) base id given when
\* the hash is unavailable, (c) trust type is 'ad', (d) the administrator's
\* realm matches and a password accompanies the administrator; the first
\* one violated in this order is the one reported.
C12_ClaimedOrder ==
    [][Commanded =>
        ReportsFirstOf(<<[holds |-> JoinAvailable.holds
                                      /\ OwnDomainConfigured.holds,
                          errors |-> JoinAvailable.errors
                                      \cup OwnDomainConfigured.errors],
                         BaseIdOrHash(Options),
                         TrustTypeIsAd(Options),
                         AdminRealmMatches(Options),
                         AdminHasPassword(Options)>>)]_vars

\* C12, amended: the preconditions are checked in the order join capability
\* available, base id given when the hash is unavailable, trust type is
\* 'ad', own domain configured, administrator's realm matches, password
\* accompanies the administrator; the first one violated in this order is
\* the one reported.
C12_CodeOrder ==
    [][Commanded =>
        ReportsFirstOf(<<JoinAvailable,
                         BaseIdOrHash(Options),
                         TrustTypeIsAd(Options),
                         OwnDomainConfigured,
                         AdminRealmMatches(Options),
                         AdminHasPassword(Options)>>)]_vars

\* Base id missing, trust type wrong and own domain not configured, all at
\* once: the missing base id is reported.
C12_Witness ==
    /\ Examined({"trust_add"})
    /\ bindings_installed /\ ~murmur_installed /\ ~configured
    /\ request[1].options.base_id = <<>>
    /\ request[1].options.trust_type = <<"ipa">>
    /\ Len(request[1].options.realm_admin) > 1
    /\ ~request[1].options.realm_passwd
    /\ last.error = "ValidationError: missing base_id"

\* The calls that join the foreign domain.
Joins == {"join_ad_full_credentials", "join_ad_ipa_half"}

\* The joins a call made, as positions in the list of what it did.
JoinsMade(rec) == {i \in DOMAIN rec.did : rec.did[i] \in Joins}

\* The command came with an administrator's name and password.
AdminSupplied(req) == req.realm_admin # <<>> /\ req.realm_passwd

\* C13: a successful trust_add call makes exactly one join: the full one if
\* and only if an administrator's name and password were given (a trust
\* secret given with them changes nothing), the half one if and only if no
\* administrator's name was given and a trust secret was.  A call with
\* neither fails and makes no join, and once its options and range have
\* passed validation the error is the one about insufficient arguments.
C13_OneJoinByCredentials ==
    [][Commanded =>
        /\ last'.error = "none" =>
              /\ Cardinality(JoinsMade(last')) = 1
              /\ last'.join = "full" <=> AdminSupplied(Options)
              /\ last'.join = "half" <=>
                    (Options.realm_admin = <<>> /\ Options.trust_secret)
              /\ last'.join = "full" <=>
                    (\E i \in JoinsMade(last') :
                        last'.did[i] = "join_ad_full_credentials")
        /\ (~AdminSupplied(Options) /\ ~Options.trust_secret) =>
              /\ last'.error # "none"
              /\ JoinsMade(last') = {}
              /\ last'.join = "none"
              /\ trusts' = trusts
              /\ last'.error \in
                    OptionErrors \cup RangeErrors
                    \cup {"populate_remote_domain failed",
                          "ValidationError: not enough arguments"}
              /\ (\E i \in DOMAIN last'.did : last'.did[i] = "trust_show")
                    => last'.error = "ValidationError: not enough arguments"
       ]_vars

\* A successful call that came with administrator, password and secret.
C13_Witness ==
    /\ Examined({"trust_add"})
    /\ AdminSupplied(request[1].options)
    /\ request[1].options.trust_secret
    /\ last.error = "none"
    /\ last.join = "full"
    /\ Cardinality(JoinsMade(last)) = 1

DidBefore(rec, first, i) == \E j \in 1..(i - 1) : rec.did[j] = first

\* C15: in every trust_add call the populate step, which finds the foreign
\* domain's SID, runs only after validate_options has returned, and every
\* join and every range creation comes after it; nothing is written without
\* it; if it fails, no join is attempted and nothing is written.
C15_PopulateBeforeJoinAndRange ==
    [][Commanded =>
        /\ \A i \in DOMAIN last'.did :
              /\ last'.did[i] = "populate_remote_domain"
                    => DidBefore(last', "validate_options", i)
              /\ last'.did[i] \in Joins \cup {"idrange_add"}
                    => DidBefore(last', "populate_remote_domain", i)
        /\ (trusts' # trusts \/ ranges' # ranges) => last'.dom_sid # <<>>
        /\ last'.error = "populate_remote_domain failed" =>
              /\ JoinsMade(last') = {}
              /\ \A i \in DOMAIN last'.did : last'.did[i] # "idrange_add"
              /\ trusts' = trusts
              /\ ranges' = ranges
       ]_vars

C15_Witness ==
    /\ Examined({"trust_add"})
    /\ last.error = "none"
    /\ last.did = <<"validate_options", "idrange_show",
                    "populate_remote_domain", "trust_show",
                    "join_ad_full_credentials", "idrange_add">>
    /\ range_name(last.realm) \in DOMAIN ranges
    /\ ranges[range_name(last.realm)].ipanttrusteddomainsid = last.dom_sid[1]

\* The range that the command examined has created.
Created == ranges'[range_name(Options.realm)]

\* The command examined has created a range, without explicit range options
\* and with an answer of the foreign domain controller that holds both
\* required attributes.
CreatedFromDiscovery ==
    /\ Commanded
    /\ ranges' # ranges
    /\ Options.base_id = <<>>
    /\ Options.range_size = <<>>
    /\ Options.range_type = <<>>
    /\ request'[1].info # NoInfo
    /\ request'[1].info[1].msSFU30MaxUidNumber # <<>>
    /\ request'[1].info[1].msSFU30OrderNumber # <<>>

\* The order number of the answer.
OrderNumber == request'[1].info[1].msSFU30OrderNumber[1]

\* The larger of two numbers.
Max(a, b) == IF a < b THEN b ELSE a

\* max(maxUid, maxGid) as numbers, an absent group id counting as none
MaxId ==
    LET info == request'[1].info[1]
    IN  IF info.msSFU30MaxGidNumber = <<>> THEN info.msSFU30MaxUidNumber[1]
        ELSE Max(info.msSFU30MaxUidNumber[1], info.msSFU30MaxGidNumber[1])

\* The maximum as add_range takes it
MaxIdTaken ==
    py_max(request'[1].info[1].msSFU30MaxUidNumber,
           request'[1].info[1].msSFU30MaxGidNumber)[1]

\* ceil(a / b) for b > 0
Ceiling(a, b) == -((-a) \div b)

Derived ==
    LET found == discover(Options, request'[1].info)
    IN  [range_type |-> IF found.range_type # <<>> THEN found.range_type[1]
                        ELSE "ipa-ad-trust",
         base_id |-> IF Truthy(found.base_id) THEN found.base_id[1]
                     ELSE DEFAULT_RANGE_SIZE
                            + (murmurhash3(last'.dom_sid[1]) % 10000)
                                * DEFAULT_RANGE_SIZE,
         range_size |-> IF Truthy(found.range_size) THEN found.range_size[1]
                        ELSE DEFAULT_RANGE_SIZE]

\* C17: when a trust_add call creates the range of a realm that had none,
\* each of range type, range size and base id that the call gives is the
\* value stored, whatever the others are and whatever discovery or hashing
\* produce; each value not given is the one derived from discovery or the
\* default.
C17_ExplicitValuesStored ==
    [][(Commanded /\ ranges' # ranges) =>
        /\ Created.iparangetype
              = IF Options.range_type # <<>> THEN Options.range_type[1]
                ELSE Derived.range_type
        /\ Created.ipaidrangesize
              = IF Options.range_size # <<>> THEN Options.range_size[1]
                ELSE Derived.range_size
        /\ Created.ipabaseid
              = IF Options.base_id # <<>> THEN Options.base_id[1]
                ELSE Derived.base_id]_vars

\* C18: if the realm has a range and the call gives a base id or a range
\* size, the call is refused with a validation error, makes no join, and
\* creates or changes no entry.
C18_RangeOptionsRefused ==
    [][(/\ Commanded
        /\ range_name(Options.realm) \in DOMAIN ranges
        /\ Options.base_id # <<>> \/ Options.range_size # <<>>)
       => (/\ last'.error \in OptionErrors \cup {"ValidationError: id range"}
           /\ JoinsMade(last') = {}
           /\ trusts' = trusts
           /\ ranges' = ranges)]_vars

\* The range that the realm of the command examined had before it.
OldRange == ranges[range_name(Options.realm)]

\* C19: if the realm has a range whose type differs from the range type the
\* call gives, the call fails before any join or write.  Once the options
\* have passed and the foreign domain's SID is found, the error is the
\* type-conflict one, unless the SID differs from the range's too: then it
\* is the range-conflict one.
C19_TypeConflictAfterSidConflict ==
    [][(/\ Commanded
        /\ range_name(Options.realm) \in DOMAIN ranges
        /\ Options.range_type # <<>>
        /\ Options.range_type[1] # OldRange.iparangetype)
       => (/\ last'.error # "none"
           /\ JoinsMade(last') = {}
           /\ ~Did(last', "idrange_add")
           /\ trusts' = trusts
           /\ ranges' = ranges
           /\ last'.dom_sid # <<>> =>
                last'.error
                  = IF OldRange.ipanttrusteddomainsid # last'.dom_sid[1]
                    THEN "ValidationError: range exists"
                    ELSE "ValidationError: range type change")]_vars

\* Both conflicts at once
C19_Witness ==
    /\ Examined({"trust_add"})
    /\ range_name(last.realm) \in DOMAIN ranges
    /\ request[1].options.range_type
         = <<"ipa-ad-trust-posix">>
    /\ ranges[range_name(last.realm)].iparangetype = "ipa-ad-trust"
    /\ last.dom_sid # <<>>
    /\ ranges[range_name(last.realm)].ipanttrusteddomainsid # last.dom_sid[1]
    /\ last.error = "ValidationError: range exists"
    /\ last.did = <<"validate_options", "idrange_show",
                    "populate_remote_domain">>

----------------------------------------------------------------------------
(* Properties of trust_show, trust_del and trust_mod                        *)

\* The entries of the realm's trust, in any of the containers.
TrustsOf(realm) ==
    {dn \in DOMAIN trusts :
        /\ \E i \in DOMAIN trust_types : dn[1] = trust_types[i]
        /\ lower(dn[2]) = lower(realm)}

\* C20: trust_show on a realm whose trust is in one of the containers
\* cn=ad or cn=ipa returns that entry, whichever container holds it;
\* trust_del and trust_mod find it too.
C20_FoundInAnyContainer ==
    [][(/\ request = <<>>
        /\ request' # <<>>
        /\ request'[1].command \in {"trust_show", "trust_del", "trust_mod"}
        /\ TrustsOf(Options.realm) # {})
       => (/\ last'.error # "NotFound: trust"
           /\ last'.found # <<>>
           /\ last'.found[1] \in TrustsOf(Options.realm))]_vars

\* The step is a trust_show, trust_del or trust_mod command.
CommandedOnTrust ==
    /\ request = <<>>
    /\ request' # <<>>
    /\ request'[1].command \in {"trust_show", "trust_del", "trust_mod"}

\* C21: trust_show, trust_del and trust_mod on a realm that has no trust
\* entry in any container end with the NotFound of the trust, find nothing,
\* and delete or change no entry.
C21_AbsentTrustNotFound ==
    [][(CommandedOnTrust /\ TrustsOf(Options.realm) = {})
       => (/\ last'.error = "NotFound: trust"
           /\ last'.found = <<>>
           /\ last'.did = <<"trust_show">>
           /\ trusts' = trusts
           /\ ranges' = ranges)]_vars

\* A trust-del command for a realm without trust, with another realm's trust
\* in the directory
C21_Witness ==
    /\ Examined({"trust_del"})
    /\ request[1].options.realm = <<"n", "t">>
    /\ last.error = "NotFound: trust"
    /\ DOMAIN trusts = {<<"ad", <<"a", "d">>>>}

\* The blacklist holds an entry that is not a valid SID.
HasInvalidSid(blacklist) ==
    \E i \in DOMAIN blacklist : ~is_sid_valid(blacklist[i])

\* C22: a trust_mod whose lookup found the trust: with the bindings
\* installed, an invalid entry in a blacklist ends the command with the
\* ValidationError of that attribute (the incoming one first), before the
\* update, and the entries are unchanged; without the bindings, and when
\* every entry is valid, the blacklists are written.
C22_InvalidSidRejected ==
    [][(CommandedOnTrust /\ request'[1].command = "trust_mod"
                         /\ last'.found # <<>>)
       => IF bindings_installed
             /\ HasInvalidSid(Options.ipantsidblacklistincoming)
          THEN /\ last'.error = "ValidationError: ipantsidblacklistincoming"
               /\ last'.did = <<"trust_show">>
               /\ trusts' = trusts
          ELSE IF bindings_installed
                  /\ HasInvalidSid(Options.ipantsidblacklistoutgoing)
          THEN /\ last'.error = "ValidationError: ipantsidblacklistoutgoing"
               /\ last'.did = <<"trust_show">>
               /\ trusts' = trusts
          ELSE /\ last'.error = "none"
               /\ last'.did = <<"trust_show", "update_entry">>
               /\ trusts'[last'.found[1]].ipantsidblacklistincoming
                     = Options.ipantsidblacklistincoming
               /\ trusts'[last'.found[1]].ipantsidblacklistoutgoing
                     = Options.ipantsidblacklistoutgoing]_vars

\* A trust-mod command refused for its outgoing blacklist alone
C22_Witness ==
    /\ Examined({"trust_mod"})
    /\ bindings_installed
    /\ last.found # <<>>
    /\ request[1].options.ipantsidblacklistincoming = <<"S-1-5-21-3">>
    /\ last.error = "ValidationError: ipantsidblacklistoutgoing"

\* A trust-mod command that wrote an invalid entry, the bindings missing
C22_WitnessNoBindings ==
    /\ Examined({"trust_mod"})
    /\ ~bindings_installed
    /\ request[1].options.ipantsidblacklistoutgoing = <<"S-1-5-21-3", "bogus">>
    /\ last.did = <<"trust_show", "update_entry">>

\* C27: a trust_show that finds the entry and is not raw returns trusttype
\* and trustdirection, the strings of the tables for 1, 2 and 3 and Unknown
\* for any other number, in place of ipanttrusttype and ipanttrustdirection;
\* a raw trust_show returns the entry as it is stored.
C27_ShowTranslates ==
    (Examined({"trust_show"}) /\ last.error = "none")
    => LET entry == trusts[last.found[1]]
           result == request[1].result[1]
       IN  IF request[1].options.raw THEN result = entry
           ELSE /\ "ipanttrusttype" \notin DOMAIN result
                /\ "ipanttrustdirection" \notin DOMAIN result
                /\ result.ipanttrusteddomainsid = entry.ipanttrusteddomainsid
                /\ result.trusttype
                     = CASE entry.ipanttrusttype = 1
                              -> <<"Non-Active Directory domain">>
                         [] entry.ipanttrusttype = 2
                              -> <<"Active Directory domain">>
                         [] entry.ipanttrusttype = 3
                              -> <<"RFC4120-compliant Kerberos realm">>
                         [] OTHER -> <<"Unknown">>
                /\ result.trustdirection
                     = CASE entry.ipanttrustdirection = 1
                              -> <<"Trusting forest">>
                         [] entry.ipanttrustdirection = 2
                              -> <<"Trusted forest">>
                         [] entry.ipanttrustdirection = 3
                              -> <<"Two-way trust">>
                         [] OTHER -> <<"Unknown">>

\* A trust-show, not raw, of a trust with a type outside the table and the
\* direction 1
C27_Witness ==
    /\ Examined({"trust_show"})
    /\ last.error = "none"
    /\ ~request[1].options.raw
    /\ trusts[last.found[1]].ipanttrusttype = 4
    /\ request[1].result[1].trusttype = <<"Unknown">>
    /\ request[1].result[1].trustdirection = <<"Trusting forest">>

\* A raw trust-show of a trust with the type 3
C27_WitnessRaw ==
    /\ Examined({"trust_show"})
    /\ last.error = "none"
    /\ request[1].options.raw
    /\ request[1].result[1].ipanttrusttype = 3

\* The command examined has created a range whose base id comes neither
\* from the options nor from the discovery.
CreatedWithHash ==
    /\ Commanded
    /\ ranges' # ranges
    /\ ~Truthy(Options.base_id)
    /\ ~Truthy(discover(Options, request'[1].info).base_id)

\* C26: the base id of a range created without a given or discovered base
\* id is 200000 + (murmurhash3(SID) mod 10000) * 200000, a value that the
\* domain SID alone determines, a multiple of 200000 from 200000 to
\* 2000000000.
C26_HashedBaseId ==
    [][CreatedWithHash =>
        /\ Created.ipabaseid
              = 200000 + (murmurhash3(last'.dom_sid[1]) % 10000) * 200000
        /\ Created.ipabaseid % 200000 = 0
        /\ Created.ipabaseid >= 200000
        /\ Created.ipabaseid <= 2000000000]_vars

\* A range created with the largest hashed base id, beside the range that
\* another realm with the same domain SID was given, with the same base id
C26_Witness ==
    /\ Examined({"trust_add"})
    /\ Did(last, "idrange_add")
    /\ range_name(<<"n", "t">>) \in DOMAIN ranges
    /\ range_name(<<"a", "d">>) \in DOMAIN ranges
    /\ ranges[range_name(<<"n", "t">>)].ipabaseid = 2000000000
    /\ ranges[range_name(<<"a", "d">>)].ipabaseid = 2000000000

\* A range created with the smallest hashed base id
C26_WitnessSmallest ==
    /\ Examined({"trust_add"})
    /\ Did(last, "idrange_add")
    /\ range_name(<<"n", "t">>) \in DOMAIN ranges
    /\ ranges[range_name(<<"n", "t">>)].ipabaseid = 200000

\* The number of searches in the foreign domain controller that the call
\* made.
Searches(rec) ==
    Cardinality({i \in DOMAIN rec.did : rec.did[i] = "search_in_dc"})

\* The foreign domain controller answers nothing to each of the searches
\* of the loop.
AllEmpty == \A i \in 1..RETRIES : request'[1].answers[i] = NoInfo

\* C28: a trust_add searches the foreign domain controller at most 10
\* times, every search but the last one made was answered with nothing, and
\* fewer than 10 searches end with an answer; when all 10 answers are empty
\* the command goes on to idrange_add without an error of its own, and the
\* range created has the type ipa-ad-trust, the size 200000 and the hashed
\* base id, each when the option is not given.
C28_DiscoveryRetries ==
    [][Commanded =>
        LET n == Searches(last')
            answers == request'[1].answers
        IN  /\ n <= 10
            /\ \A i \in 1..n : i < n => answers[i] = NoInfo
            /\ (n > 0 /\ n < 10) => answers[n] # NoInfo
            /\ (n = 10 /\ AllEmpty) =>
                  /\ Did(last', "idrange_add")
                  /\ last'.error \in {"none", "idrange_add failed"}
                  /\ ranges' # ranges =>
                        /\ Options.range_type = <<>>
                              => Created.iparangetype = "ipa-ad-trust"
                        /\ Options.range_size = <<>>
                              => Created.ipaidrangesize = 200000
                        /\ Options.base_id = <<>>
                              => Created.ipabaseid
                                   = 200000
                                     + (murmurhash3(last'.dom_sid[1]) % 10000)
                                          * 200000]_vars

\* C29: the size of a range created from a discovery, without explicit
\* options, is computed from the larger, as numbers, of msSFU30MaxUidNumber
\* and msSFU30MaxGidNumber, and from msSFU30MaxUidNumber when there is no
\* msSFU30MaxGidNumber.
C29_SizeFromLargerId ==
    [][CreatedFromDiscovery =>
        LET size == (1 + ((MaxId - OrderNumber) \div DEFAULT_RANGE_SIZE))
                        * DEFAULT_RANGE_SIZE
        IN  Created.ipaidrangesize
              = IF size # 0 THEN size ELSE DEFAULT_RANGE_SIZE]_vars

\* The command examined has called add_range and got past its searches.
PastDiscovery ==
    /\ Commanded
    /\ \/ Did(last', "idrange_add")
       \/ last'.error = "NameError: pysss_murmur"

\* C30: a trust_add searches the foreign domain controller only if the
\* range type is not given or is ipa-ad-trust-posix, and then it does
\* before it adds the range; with the range type ipa-ad-trust it makes no
\* search, and the range created has the type ipa-ad-trust, the base id
\* given or the hashed one, and the size given or 200000, whatever the
\* foreign domain controller holds.
C30_DiscoveryOnlyForPosix ==
    [][Commanded =>
        /\ Searches(last') > 0
              => Options.range_type \in {<<>>, <<"ipa-ad-trust-posix">>}
        /\ (PastDiscovery
              /\ Options.range_type \in {<<>>, <<"ipa-ad-trust-posix">>})
              => Searches(last') > 0
        /\ (Options.range_type = <<"ipa-ad-trust">> /\ ranges' # ranges)
              => LET hashed == 200000
                                + (murmurhash3(last'.dom_sid[1]) % 10000)
                                     * 200000
                 IN  /\ Created.iparangetype = "ipa-ad-trust"
                     /\ Created.ipabaseid
                          \in {hashed} \cup
                              {Options.base_id[i] : i \in DOMAIN Options.base_id}
                     /\ Options.base_id = <<>> => Created.ipabaseid = hashed
                     /\ Created.ipaidrangesize
                          \in {200000} \cup
                              {Options.range_size[i] :
                                  i \in DOMAIN Options.range_size}
                     /\ Options.range_size = <<>>
                          => Created.ipaidrangesize = 200000]_vars

\* A range created with the range type ipa-ad-trust and no other option,
\* without a search, the foreign domain controller holding an entry
C30_Witness ==
    /\ Examined({"trust_add"})
    /\ request[1].options.range_type = <<"ipa-ad-trust">>
    /\ request[1].options.base_id = <<>>
    /\ request[1].options.range_size = <<>>
    /\ request[1].answers[1] = Info(<<3000000>>, <<>>, <<2000000>>)
    /\ Did(last, "idrange_add")
    /\ Searches(last) = 0
    /\ range_name(<<"n", "t">>) \in DOMAIN ranges
    /\ ranges[range_name(<<"n", "t">>)].iparangetype = "ipa-ad-trust"
    /\ ranges[range_name(<<"n", "t">>)].ipaidrangesize = 200000

\* A range created with the range type ipa-ad-trust-posix after a search
C30_WitnessPosix ==
    /\ Examined({"trust_add"})
    /\ request[1].options.range_type = <<"ipa-ad-trust-posix">>
    /\ Did(last, "idrange_add")
    /\ Searches(last) = 1
    /\ ranges # <<>>

\* C33: every range that a trust_add creates has a size of at least 1,
\* whatever maximum ids and order number the foreign domain controller
\* answers, also when the maximum id is below the order number.
C33_SizeAtLeastOne ==
    [][(Commanded /\ ranges' # ranges) => Created.ipaidrangesize >= 1]_vars

\* The errors with which execute_ad ends a call: the join raised or
\* returned nothing, or no join could be made with the options given.
JoinErrors ==
    {"NotFound: domain controller", "ValidationError: write permissions",
     "join_ad_ipa_half failed", "ValidationError: not enough arguments"}

\* C32: within one trust_add call idrange_add is called only after a join
\* of that call has returned its result; a call that ends with an error of
\* execute_ad (domain controller not found, no write permission, failed
\* half join, not enough arguments) makes no search, calls idrange_add
\* never, and leaves cn=ranges and cn=trusts as they were.
C32_RangeOnlyAfterJoin ==
    [][Commanded =>
        /\ \A i \in DOMAIN last'.did :
              last'.did[i] \in {"idrange_add", "search_in_dc"} =>
                 /\ \E j \in JoinsMade(last') : j < i
                 /\ last'.join \in {"full", "half"}
        /\ ranges' # ranges => last'.join \in {"full", "half"}
        /\ last'.error \in JoinErrors =>
              /\ last'.join = "none"
              /\ ~Did(last', "idrange_add")
              /\ ~Did(last', "search_in_dc")
              /\ ranges' = ranges
              /\ trusts' = trusts
       ]_vars

\* A call whose full join did not find the domain controller, for a realm
\* that has no range: none was made
C32_Witness ==
    /\ Examined({"trust_add"})
    /\ last.error = "NotFound: domain controller"
    /\ Did(last, "join_ad_full_credentials")
    /\ range_name(last.realm) \notin DOMAIN ranges

\* The same for a join that returned None, and for no credentials at all
C32_WitnessNone ==
    /\ Examined({"trust_add"})
    /\ last.error = "ValidationError: write permissions"
    /\ range_name(last.realm) \notin DOMAIN ranges

C32_WitnessNoArguments ==
    /\ Examined({"trust_add"})
    /\ last.error = "ValidationError: not enough arguments"
    /\ JoinsMade(last) = {}
    /\ range_name(last.realm) \notin DOMAIN ranges

\* A call that made the half join and then the range
C32_WitnessCreated ==
    /\ Examined({"trust_add"})
    /\ last.error = "none"
    /\ last.join = "half"
    /\ Did(last, "idrange_add")
    /\ range_name(last.realm) \in DOMAIN ranges

\* The entries that the history keeps of the __upgrade step
UpgradeRuns == {i \in 1..Len(log) : log[i].method = "__upgrade"}

\* C31: when ld.update raises BadSyntax the __upgrade step raises BadSyntax;
\* when it raises any other exception the step raises RuntimeError, not
\* BadSyntax; when it returns the step succeeds; and the step runs at most
\* once in a run.
C31_BadSyntaxKeptOthersWrapped ==
    /\ Cardinality(UpgradeRuns) <= 1
    /\ \A i \in UpgradeRuns :
          /\ log[i].raised = "BadSyntax" => log[i].outcome = "BadSyntax"
          /\ log[i].raised = "Exception" => log[i].outcome = "RuntimeError"
          /\ log[i].raised = "none" => log[i].outcome = "ok"

\* A run has ended whose ld.update raised BadSyntax
C31_Witness ==
    /\ pc = "done"
    /\ \E i \in UpgradeRuns :
          log[i].raised = "BadSyntax" /\ log[i].outcome = "BadSyntax"
    /\ Len(log) > UpgradeAt

\* A run has ended whose ld.update raised another exception
C31_WitnessOther ==
    /\ pc = "done"
    /\ \E i \in UpgradeRuns :
          log[i].raised = "Exception" /\ log[i].outcome = "RuntimeError"

\* C34: once __disable_listeners has completed, cn=config has no
\* nsslapd-ldapientrysearchbase for the rest of the run, the end of the run
\* included, also when it had one before the upgrade; __restore_config
\* changes no attribute other than nsslapd-port, nsslapd-security and
\* nsslapd-global-backend-lock, and these three are all that is recorded.
C34_SearchbaseNotRestored ==
    /\ [](Ran("__disable_listeners", "ok") => config[SEARCHBASE] = <<>>)
    /\ [][AtStep("__restore_config") =>
            /\ \A a \in Attrs \ SavedKeys : config'[a] = config[a]
            /\ \A k \in SavedKeys :
                  sstore[k] # <<>> => <<sstore[k][1]>> = pre.config[k]]_vars

\* A run has ended that began with the override and a port: the port is
\* back, the override is not
C34_Witness ==
    /\ pc = "done"
    /\ Ran("__disable_listeners", "ok")
    /\ Ran("__restore_config", "ok")
    /\ pre.config[SEARCHBASE] # <<>>
    /\ config[SEARCHBASE] = <<>>
    /\ pre.config[PORT] = <<"389">>
    /\ config[PORT] = <<"389">>

\* C25: self.modified is false before the first step, is at every moment
\* of the run (and so at its end) true exactly when update_schema or
\* ld.update has returned true, never goes from true to false, and is left
\* as it was by an __upgrade that raises.
C25_ModifiedAccumulates ==
    /\ [](modified <=> ChangeReported)
    /\ []((pc = "init" \/ log = <<>>) => ~modified)
    /\ [][/\ modified => modified'
          /\ (/\ Len(log') = Len(log) + 1
              /\ log'[Len(log')].method = "__upgrade"
              /\ log'[Len(log')].outcome # "ok") => modified' = modified]_vars

\* A run has ended whose schema update reported a change and whose
\* __upgrade raised
C25_Witness ==
    /\ pc = "done"
    /\ UpgradeFailed
    /\ \E i \in 1..Len(log) :
          log[i].method = "__update_schema" /\ log[i].changed
    /\ modified

\* A run has ended whose schema update reported no change and whose
\* __upgrade reported one
C25_WitnessUpgrade ==
    /\ pc = "done"
    /\ \E i \in 1..Len(log) :
          log[i].method = "__update_schema" /\ log[i].outcome = "ok"
                                            /\ ~log[i].changed
    /\ \E i \in 1..Len(log) : log[i].method = "__upgrade" /\ log[i].changed
    /\ modified

----------------------------------------------------------------------------
(* Properties of trustconfig                                                *)

\* The step is a command `command` of trustconfig.
ConfigCommanded(command) ==
    /\ reply' # <<>>
    /\ reply'[1].command = command

\* The entry at dn is a POSIX group.
PosixGroup(dn) ==
    /\ dn \in DOMAIN entries
    /\ "posixgroup" \in entries[dn].objectclass
    /\ SubSeq(dn, 2, Len(dn)) = container_group \o basedn

\* The POSIX groups that the string designates, as a name or as a DN
Designated(text) ==
    {dn \in DOMAIN entries :
        PosixGroup(dn) /\ (text = str_dn(dn) \/ text \in entries[dn].cn)}

\* C23: a trustconfig_mod that gives a fallback primary group, by name or
\* by DN: when it succeeds, the stored DN is the one of an existing POSIX
\* group; when the string designates no POSIX group, the command ends with
\* the NotFound of the group and the configuration entry is unchanged.
C23_FallbackIsPosixGroup ==
    [][(/\ ConfigCommanded("trustconfig_mod")
        /\ get_dn(reply'[1].trust_type) = "none"
        /\ FALLBACK \in DOMAIN reply'[1].entry_attrs
        /\ reply'[1].entry_attrs[FALLBACK] # <<>>)
       => LET text == reply'[1].entry_attrs[FALLBACK][1]
          IN  IF Designated(text) = {}
              THEN /\ reply'[1].error = "NotFound: group"
                   /\ trustconfig' = trustconfig
              ELSE reply'[1].error = "none"
                    => /\ trustconfig'[1][FALLBACK] # <<>>
                       /\ PosixGroup(DN(trustconfig'[1][FALLBACK][1])[1])]_vars

\* C24: a trustconfig_show, after a trustconfig_mod that set the fallback
\* primary group by the name N of a POSIX group, returns N when not raw and
\* the stored string of the DN, which is not N, when raw.
C24_ShowReturnsName ==
    (/\ reply # <<>>
     /\ reply[1].command = "trustconfig_show"
     /\ reply[1].error = "none"
     /\ Typed # <<>>
     /\ DN(Typed[1]) = <<>>)
    => IF reply[1].raw
       THEN /\ reply[1].result = trustconfig[1][FALLBACK]
            /\ reply[1].result # Typed
            /\ DN(reply[1].result[1]) # <<>>
            /\ PosixGroup(DN(reply[1].result[1])[1])
       ELSE reply[1].result = Typed

\* A trustconfig-show, not raw, after the group was set by name
C24_Witness ==
    /\ reply # <<>>
    /\ reply[1].command = "trustconfig_show"
    /\ reply[1].error = "none"
    /\ ~reply[1].raw
    /\ Typed = <<<<"Default SMB Group">>>>
    /\ reply[1].result = <<<<"Default SMB Group">>>>
    /\ trustconfig[1][FALLBACK] # reply[1].result

\* A trustconfig-show, raw, after the group was set by name
C24_WitnessRaw ==
    /\ reply # <<>>
    /\ reply[1].command = "trustconfig_show"
    /\ reply[1].error = "none"
    /\ reply[1].raw
    /\ Typed = <<<<"admins">>>>

=============================================================================
